---- MODULE Spec2Model ----
(***************************************************************************)
(* A model of the SimpleAllies segment-exchange engine                     *)
(* (src/src/simpleAllies.ts, with insertSorted from src/unnamed/part_003). *)
(*                                                                         *)
(* The engine state is the fields of class SimpleAllies.  The transport    *)
(* (RawMemory, Game.time) is the environment: each tick it picks what      *)
(* RawMemory.foreignSegment holds and how many segments are open.          *)
(* JavaScript objects that the code iterates (allySegments, the response   *)
(* maps, the Sets) are kept as sequences in insertion order.               *)
(***************************************************************************)
EXTENDS Integers, Sequences, FiniteSets, TLC

(***************************************************************************)
(* Program constants                                                       *)
(***************************************************************************)
SIMPLE_ALLIES_SEGMENT_ID == 90
MAX_OPEN_SEGMENTS == 10
SIMPLE_ALLIES_DEFAULT_PRIORITY == 0
\* Priorities are JavaScript numbers in [0,1]; the model counts them in
\* tenths, so PriorityOne is the upper clamp of checkPriority.
PriorityOne == 10

\* A JavaScript number: a finite value (in tenths), NaN, or the null that
\* JSON.stringify writes for NaN.
Num(v) == [kind |-> "number", v |-> v]
NaN == [kind |-> "NaN", v |-> 0]
JsonNull == [kind |-> "null", v |-> 0]
\* a < b and a >= b on numbers: false as soon as one side is NaN.
JsLess(a, b) == a.kind = "number" /\ b.kind = "number" /\ a.v < b.v
JsGreaterEq(a, b) == a.kind = "number" /\ b.kind = "number" /\ a.v >= b.v
\* Math.min / Math.max: NaN as soon as one argument is NaN.
MathMin(a, b) == IF a.kind = "NaN" \/ b.kind = "NaN" THEN NaN ELSE IF a.v <= b.v THEN a ELSE b
MathMax(a, b) == IF a.kind = "NaN" \/ b.kind = "NaN" THEN NaN ELSE IF a.v >= b.v THEN a ELSE b

FULFILLED == "f"
DISMISSED == "d"
Undefined == "undefined"

(***************************************************************************)
(* Bounds of the model                                                     *)
(***************************************************************************)
MaxTime == 6
MaxRefreshRate == 3
MaxRequests == 2
MaxResponses == 2

Peers == {"p1", "p2"}
Rooms == {"W1N1", "W2N2"}
Players == {"n1"}
PeerIds == {"a", "b"}
RefreshRates == 1..MaxRefreshRate

PriorityKinds == {"resource", "defense", "attack", "work", "funnel"}
NameKinds == {"player", "room"}
AllKinds == PriorityKinds \cup NameKinds

(***************************************************************************)
(* Generic helpers                                                         *)
(***************************************************************************)
Range(s) == {s[i] : i \in DOMAIN s}

SeqWithout(s, x) == SelectSeq(s, LAMBDA e : e # x)

\* JavaScript's % : the sign of the result is the sign of the dividend.
JsRem(a, b) == IF a >= 0 THEN a % b ELSE 0 - ((0 - a) % b)


\* A JavaScript object with string keys, in insertion order:
\* a sequence of [key, value] entries with distinct keys.
ObjKeys(o) == [i \in DOMAIN o |-> o[i].key]
ObjHas(o, k) == \E i \in DOMAIN o : o[i].key = k
ObjGet(o, k) == o[CHOOSE i \in DOMAIN o : o[i].key = k].value
ObjDelete(o, k) == SelectSeq(o, LAMBDA e : e.key # k)
\* A store that adds an entry without looking for the key.
ObjSetAppend(o, k, v) == Append(o, [key |-> k, value |-> v])
ObjSet(o, k, v) ==
    IF ObjHas(o, k)
    THEN [i \in DOMAIN o |-> IF o[i].key = k THEN [key |-> k, value |-> v] ELSE o[i]]
    ELSE Append(o, [key |-> k, value |-> v])

\* Set.add on an insertion-ordered Set kept as a sequence.
\* An add that does not look for the element.
SetAddAgain(s, x) == Append(s, x)
SetAdd(s, x) == IF x \in Range(s) THEN s ELSE Append(s, x)

\* An optional value (T | undefined) is <<>> or <<v>>.
None == <<>>
Some(v) == <<v>>

(***************************************************************************)
(* Data: requests, segments, payloads                                      *)
(***************************************************************************)
\* Types.Request with the room of RoomRequest; timeout 0 is "no timeout".
\* The other payload fields (resourceType, amount, workType, goalType, ...)
\* are stored and published untouched and are left out.
Req(id, roomName, priority, timeout) ==
    [id |-> id, roomName |-> roomName, priority |-> priority, timeout |-> timeout]

EmptyRequests == [k \in AllKinds |-> <<>>]
EmptyResponses == [k \in AllKinds |-> <<>>]

\* A parsed JSON value as far as the engine looks at it. requestsShape and
\* responsesShape say what parsed.requests / parsed.responses are: a JSON
\* object keyed by kind, a JSON array, or missing. A JSON array has no
\* kind-named members, so the kind collections of such a value are empty.
JsonValue(isObject, reqShape, respShape, updIsNum, updatedAt, reqs, resps, self) ==
    [isObject |-> isObject, requestsShape |-> reqShape, responsesShape |-> respShape,
     updatedAtIsNumber |-> updIsNum, updatedAt |-> updatedAt,
     requests |-> reqs, responses |-> resps, selfInfo |-> self]

\* A segment object that never carries selfInfo.
MakeSegmentWithoutSelf(t, reqs, resps, self) ==
    JsonValue(TRUE, "object", "object", TRUE, t, reqs, resps, Undefined)

\* The segment object endRun builds (lines 323-339): requests and responses
\* are objects with one member per kind.
MakeSegment(t, reqs, resps, self) ==
    JsonValue(TRUE, "object", "object", TRUE, t, reqs, resps, self)

\* JSON.stringify of a segment object, and the text of a payload that is
\* not JSON at all.
JsonNumber(n) == IF n.kind = "NaN" THEN JsonNull ELSE n
JsonRequests(reqs) ==
    [k \in AllKinds |->
        IF k \in PriorityKinds
        THEN [i \in DOMAIN reqs[k] |-> [reqs[k][i] EXCEPT !.priority = JsonNumber(@)]]
        ELSE reqs[k]]
JsonStringify(v) == [parses |-> TRUE, value |-> [v EXCEPT !.requests = JsonRequests(@)]]
NotJson == [parses |-> FALSE, value |-> JsonValue(FALSE, "missing", "missing", FALSE, 0, EmptyRequests, EmptyResponses, Undefined)]

\* segment.requests?.[kind] ?? []
RequestsOfKind(segment, kind) ==
    IF segment.requestsShape = "object" THEN segment.requests[kind] ELSE <<>>

\* What peers publish: segments built by a peer engine's endRun.
PeerRequestsA ==
    [EmptyRequests EXCEPT !["resource"] = <<Req("a", "W1N1", Num(9), 0), Req("b", "W2N2", Num(2), 0)>>]
PeerRequestsB ==
    [EmptyRequests EXCEPT !["resource"] = <<Req("b", "W2N2", Num(2), 0)>>,
                          !["defense"] = <<Req("a", "W1N1", Num(5), 1)>>,
                          !["player"] = <<"n1">>,
                          !["room"] = <<"W1N1">>]
PeerSegments ==
    {MakeSegment(1, r, EmptyResponses, Undefined) : r \in {PeerRequestsA, PeerRequestsB, EmptyRequests}}

\* A JSON value whose requests and responses are arrays.
ArraySegment == JsonValue(TRUE, "array", "array", TRUE, 1, EmptyRequests, EmptyResponses, Undefined)

\* The payloads a foreign segment may carry: text that is not JSON, JSON
\* that is no object (null), an object without updatedAt, the array-shaped
\* value, and what a peer engine's endRun writes.
Payloads ==
    {NotJson,
     JsonStringify(JsonValue(FALSE, "missing", "missing", FALSE, 0, EmptyRequests, EmptyResponses, Undefined)),
     JsonStringify(JsonValue(TRUE, "array", "array", FALSE, 0, EmptyRequests, EmptyResponses, Undefined)),
     JsonStringify(ArraySegment)}
    \cup {JsonStringify(seg) : seg \in PeerSegments}

\* RawMemory.foreignSegment: undefined, or {username, id, data}.
NoForeign == [present |-> FALSE, username |-> Undefined, id |-> 0, data |-> NotJson]
Foreign(username, id, data) == [present |-> TRUE, username |-> username, id |-> id, data |-> data]
ForeignSegments ==
    {NoForeign}
    \cup {Foreign(p, SIMPLE_ALLIES_SEGMENT_ID, d) : p \in Peers, d \in Payloads}
    \cup {Foreign(p, SIMPLE_ALLIES_SEGMENT_ID + 1, JsonStringify(ArraySegment)) : p \in Peers}

(***************************************************************************)
(* Pure functions of the code                                              *)
(***************************************************************************)
\* checkPriority (lines 112-115); the argument is optional.
CheckPriority(priority) ==
    IF priority = None THEN Num(SIMPLE_ALLIES_DEFAULT_PRIORITY)
    ELSE MathMax(Num(0), MathMin(Num(PriorityOne), priority[1]))

\* The comparison every builder hands to insertSorted.
Cmp(a, b) == JsLess(a.priority, b.priority)

\* findSortedIndex: i is the JavaScript index, counted down from length - 1.
RECURSIVE FindSortedIndexFrom(_, _, _)
FindSortedIndexFrom(ary, value, i) ==
    IF i >= 0 /\ Cmp(ary[i + 1], value)
    THEN FindSortedIndexFrom(ary, value, i - 1)
    ELSE i + 1

FindSortedIndex(ary, value) == FindSortedIndexFrom(ary, value, Len(ary) - 1)

\* An insert that stores the value over the element at the index it found.
InsertSortedOverwriting(ary, value) ==
    LET insertIdx == FindSortedIndex(ary, value)
    IN IF insertIdx + 1 <= Len(ary) THEN [ary EXCEPT ![insertIdx + 1] = value]
       ELSE Append(ary, value)

\* insertSorted: ary.splice(insertIdx, 0, value)
InsertSorted(ary, value) ==
    LET insertIdx == FindSortedIndex(ary, value)
    IN SubSeq(ary, 1, insertIdx) \o <<value>> \o SubSeq(ary, insertIdx + 1, Len(ary))

\* The shape test of readForeignSegment (lines 201-210).
ShapeAccepted(parsed) ==
    /\ parsed.isObject
    /\ parsed.requestsShape = "array"
    /\ parsed.responsesShape = "array"
    /\ parsed.updatedAtIsNumber

\* A read that does not look at the owner of the foreign segment.
ReadForeignSegmentOfAnyone(fs, playerName, id) ==
    IF ~fs.present THEN None
    ELSE IF fs.id # id THEN None
    ELSE IF ~fs.data.parses THEN None
    ELSE IF ShapeAccepted(fs.data.value) THEN Some(fs.data.value)
    ELSE None

\* readForeignSegment (lines 187-218): the segment, or undefined. JSON.parse
\* throws on text that is not JSON; the throw at line 213 and the catch
\* leave `segment` as the shape test set it.
ReadForeignSegment(fs, playerName, id) ==
    IF ~fs.present THEN None
    ELSE IF fs.username # playerName \/ fs.id # id THEN None
    ELSE IF ~fs.data.parses THEN None
    ELSE IF ShapeAccepted(fs.data.value) THEN Some(fs.data.value)
    ELSE None

\* A try without a catch clause.
TryCatchesNothing == FALSE

\* The try of lines 199-216 has a catch clause that logs and does not
\* rethrow.
TryCatches == TRUE

\* An exception leaves readForeignSegment: lines 188-195, outside the try,
\* read fields of a foreign segment that line 188 found present; once the
\* try is entered, JSON.parse throws on text that is not JSON and line 213
\* throws in any case.
ReadForeignSegmentThrows(fs, playerName, id) ==
    /\ fs.present
    /\ fs.username = playerName
    /\ fs.id = id
    /\ ~TryCatches

\* The poller's clock (line 229).
Clock(t, rate) == JsRem(t - 1, rate) - rate + 1

\* doRefresh (line 279); x % 0 is NaN, which is not 0.
IsRefreshBoundary(t, rate, peerCount) ==
    IF rate * peerCount = 0 THEN FALSE ELSE JsRem(t, rate * peerCount) = 0

(***************************************************************************)
(* State                                                                   *)
(***************************************************************************)
VARIABLES
    time,            \* Game.time
    phase,           \* where the host loop is in this tick: start, run, done
    refreshRate,     \* this.refreshRate
    limits,          \* how many requests and responses this host creates at most
    allies,          \* this._allies, in insertion order
    allyIdx,         \* this.allyIdx
    allySegments,    \* this.allySegments, entries in insertion order
    requests,        \* this.requests
    responses,       \* this.responses, each map in insertion order
    requestStatus,   \* this.requestStatus
    selfInfo,        \* this.selfInfo
    lastUpdateTime,  \* this.lastUpdateTime
    foreignSegment,  \* RawMemory.foreignSegment of this tick
    openSegments,    \* Object.keys(RawMemory.segments).length of this tick
    written,         \* what was written to RawMemory.segments[90] in this tick
    op,              \* the last operation: its name and its first argument
    calls,           \* the transport and handler calls of the last operation
    returned,        \* what the last operation returned (builders: the id)
    pre,             \* the engine fields as they were before the last operation
    decided,         \* the terminal statuses the handler has returned: id, peer, kind
    builderCalled,   \* observation: a builder was called in this tick
    pollLog,         \* the poller's transport calls with their ticks, when recorded
    publishLog,      \* what each endRun met and did, with its tick, when recorded
    thrown           \* the last operation raised an exception to its caller

engineVars == <<refreshRate, limits, allies, allyIdx, allySegments, requests, responses,
                requestStatus, selfInfo, lastUpdateTime>>
vars == <<time, phase, refreshRate, limits, allies, allyIdx, allySegments, requests, responses,
          requestStatus, selfInfo, lastUpdateTime, foreignSegment, openSegments,
          written, op, calls, returned, pre, decided, builderCalled, pollLog, publishLog,
          thrown>>

\* A call record: fn names the function called, who the peer it is about,
\* key the request id, name or slot, result what it returned.
Call(fn, who, key, result) == [fn |-> fn, who |-> who, key |-> key, result |-> result]
Op(name, arg) == [name |-> name, arg |-> arg]
\* The same for a reply, with the count, amount or intel it was called with.
OpWith(name, arg, count) == [name |-> name, arg |-> arg, count |-> count]

\* The fields an operation may change, for comparing before and after.
Snapshot ==
    [allies |-> allies, allyIdx |-> allyIdx, allySegments |-> allySegments,
     requests |-> requests, responses |-> responses, requestStatus |-> requestStatus,
     selfInfo |-> selfInfo, lastUpdateTime |-> lastUpdateTime]

\* The host's budget: the number of local requests, of responses, and of both.
Limits(nRequests, nResponses, nTotal) ==
    [requests |-> nRequests, responses |-> nResponses, total |-> nTotal]

\* requestStatus is only looked up by id, never walked: a function from the
\* ids that have a status.
NoStatus == [id \in {} |-> Undefined]
\* A store that forgets every other id.
SetStatusForgetting(status, id, result) == [k \in {id} |-> result]
HasStatus(status, id) == id \in DOMAIN status
SetStatus(status, id, result) ==
    [k \in DOMAIN status \cup {id} |-> IF k = id THEN result ELSE status[k]]

\* this.allies[idx]: undefined past the end.
AllyAt(idx) == IF idx < Len(allies) THEN allies[idx + 1] ELSE Undefined

\* The state after new SimpleAllies({refreshRate}) (lines 69-94) and the
\* addAlly calls of the host's set-up, at tick 0, for a host with a budget.
Constructed(rates, allySeqs, budget) ==
    /\ time = 0
    /\ phase = "start"
    /\ refreshRate \in rates
    /\ limits = budget
    /\ allies \in allySeqs
    /\ allyIdx = 0
    /\ allySegments = <<>>
    /\ requests = EmptyRequests
    /\ responses = EmptyResponses
    /\ requestStatus = NoStatus
    /\ selfInfo = Undefined
    /\ lastUpdateTime = 0
    /\ foreignSegment = NoForeign
    /\ openSegments = 0
    /\ written = None
    /\ op = Op("constructor", "")
    /\ calls = <<>>
    /\ returned = None
    /\ pre = Snapshot
    /\ decided = {}
    /\ builderCalled = FALSE
    /\ pollLog = <<>>
    /\ publishLog = <<>>
    /\ thrown = FALSE

Init == Constructed(RefreshRates, {<<>>}, Limits(MaxRequests, MaxResponses, MaxRequests + MaxResponses))

(***************************************************************************)
(* The environment: the next tick                                          *)
(***************************************************************************)
TickUpTo(limit, fs, open) ==
    /\ time < limit
    /\ time' = time + 1
    /\ phase' = "start"
    /\ foreignSegment' = fs
    /\ openSegments' = open
    /\ written' = None
    /\ op' = Op("tick", "")
    /\ pre' = Snapshot
    /\ calls' = <<>>
    /\ returned' = None
    /\ builderCalled' = FALSE
    /\ thrown' = FALSE
    /\ UNCHANGED <<engineVars, decided, pollLog, publishLog>>

Tick(fs, open) == TickUpTo(MaxTime, fs, open)

(***************************************************************************)
(* addAlly / removeAlly (lines 117-126), one name per call                 *)
(***************************************************************************)
AddAlly(ally) ==
    /\ allies' = SetAdd(allies, ally)
    /\ op' = Op("addAlly", ally)
    /\ pre' = Snapshot
    /\ calls' = <<>>
    /\ returned' = None
    /\ thrown' = FALSE
    /\ UNCHANGED <<time, phase, refreshRate, limits, allyIdx, allySegments, requests, responses,
                   requestStatus, selfInfo, lastUpdateTime, foreignSegment, openSegments,
                   written, decided, builderCalled, pollLog, publishLog>>

RemoveAlly(ally) ==
    /\ allies' = SeqWithout(allies, ally)
    /\ op' = Op("removeAlly", ally)
    /\ pre' = Snapshot
    /\ calls' = <<>>
    /\ returned' = None
    /\ thrown' = FALSE
    /\ UNCHANGED <<time, phase, refreshRate, limits, allyIdx, allySegments, requests, responses,
                   requestStatus, selfInfo, lastUpdateTime, foreignSegment, openSegments,
                   written, decided, builderCalled, pollLog, publishLog>>

(***************************************************************************)
(* initRun -> readAllySegment (lines 139-142, 223-256)                     *)
(***************************************************************************)
\* A cursor that is not advanced before the activation.
RequestNextStuck ==
    LET idx == allyIdx % Len(allies)
        ally == allies[idx + 1]
    IN /\ allyIdx' = idx
       /\ calls' = <<Call("setForeignSegment", ally, "90", Undefined)>>
       /\ UNCHANGED allySegments

\* case -1: advance the cursor and activate the next ally's segment.
RequestNext ==
    LET idx == (allyIdx + 1) % Len(allies)
        ally == allies[idx + 1]
    IN /\ allyIdx' = idx
       /\ calls' = <<Call("setForeignSegment", ally, "90", Undefined)>>
       /\ UNCHANGED allySegments

\* A failed read that leaves the cached entry in place.
ConsumeKeepStale ==
    LET ally == AllyAt(allyIdx)
        segment == ReadForeignSegment(foreignSegment, ally, SIMPLE_ALLIES_SEGMENT_ID)
    IN /\ allySegments' = IF segment # None
                          THEN ObjSet(allySegments, ally, segment[1])
                          ELSE allySegments
       /\ calls' = <<Call("readForeignSegment", ally, "90", IF segment # None THEN "segment" ELSE Undefined)>>
       /\ UNCHANGED allyIdx

\* case 0: read the current ally's segment; store it or drop the entry.
Consume ==
    LET ally == AllyAt(allyIdx)
        segment == ReadForeignSegment(foreignSegment, ally, SIMPLE_ALLIES_SEGMENT_ID)
    IN /\ allySegments' = IF segment # None
                          THEN ObjSet(allySegments, ally, segment[1])
                          ELSE ObjDelete(allySegments, ally)
       /\ calls' = <<Call("readForeignSegment", ally, "90", IF segment # None THEN "segment" ELSE Undefined)>>
       /\ UNCHANGED allyIdx

ReadAllySegment ==
    IF Len(allies) = 0
    THEN /\ calls' = <<>>
         /\ UNCHANGED <<allyIdx, allySegments>>
    ELSE CASE Clock(time, refreshRate) = -1 -> RequestNext
           [] Clock(time, refreshRate) = 0 -> Consume
           [] OTHER -> /\ calls' = <<>>
                       /\ UNCHANGED <<allyIdx, allySegments>>

\* An exception of readForeignSegment leaves readAllySegment and initRun
\* before the cache is touched.
ReadAllySegmentThrows ==
    /\ Len(allies) > 0
    /\ Clock(time, refreshRate) = 0
    /\ ReadForeignSegmentThrows(foreignSegment, AllyAt(allyIdx), SIMPLE_ALLIES_SEGMENT_ID)

\* pollLog is an observation of the run, not engine state: a specification
\* either records the calls of initRun in it (LogPoll) or leaves it alone.
InitRunBody ==
    /\ phase = "start"
    /\ phase' = "run"
    /\ IF ReadAllySegmentThrows
       THEN /\ thrown' = TRUE
            /\ calls' = <<Call("readForeignSegment", AllyAt(allyIdx), "90", "throws")>>
            /\ UNCHANGED <<allyIdx, allySegments>>
       ELSE /\ thrown' = FALSE
            /\ ReadAllySegment
    /\ op' = Op("initRun", "")
    /\ pre' = Snapshot
    /\ returned' = None
    /\ UNCHANGED <<time, refreshRate, limits, allies, requests, responses, requestStatus,
                   selfInfo, lastUpdateTime, foreignSegment, openSegments, written, decided,
                   builderCalled, publishLog>>

InitRun == InitRunBody /\ UNCHANGED pollLog

LogPoll == pollLog' = pollLog \o [i \in DOMAIN calls' |-> [t |-> time, call |-> calls'[i]]]
InitRunLogged == InitRunBody /\ LogPoll

(***************************************************************************)
(* allySegments is a public field (line 62): the host, or a subclass that  *)
(* replaces readForeignSegment, stores a typed SimpleAlliesSegment for a   *)
(* configured ally.                                                        *)
(***************************************************************************)
HostSetAllySegment(ally, segment) ==
    /\ ally \in Range(allies)
    /\ allySegments' = ObjSet(allySegments, ally, segment)
    /\ op' = Op("setAllySegment", ally)
    /\ pre' = Snapshot
    /\ calls' = <<>>
    /\ returned' = None
    /\ thrown' = FALSE
    /\ UNCHANGED <<time, phase, refreshRate, limits, allies, allyIdx, requests, responses,
                   requestStatus, selfInfo, lastUpdateTime, foreignSegment, openSegments,
                   written, decided, builderCalled, pollLog, publishLog>>

(***************************************************************************)
(* processRequests (lines 591-615)                                         *)
(***************************************************************************)
\* The handler is any function the application passes. It is modelled by
\* the statuses it returns, in call order: call number n returns
\* answers[n], and undefined once the answers are used up.
HandlerResult(answers, n) == IF n <= Len(answers) THEN answers[n] ELSE Undefined

\* The pairs with the allies taken from the last entry to the first.
RECURSIVE ItemsFromBackwards(_, _, _)
ItemsFromBackwards(segments, requestType, i) ==
    IF i > Len(segments) THEN <<>>
    ELSE LET coll == RequestsOfKind(segments[i].value, requestType)
         IN ItemsFromBackwards(segments, requestType, i + 1)
            \o [j \in DOMAIN coll |-> [ally |-> segments[i].key, req |-> coll[j]]]

\* The (ally, request) pairs in the order of the two loops: Object.entries
\* of allySegments, then the ally's collection of that kind.
RECURSIVE ItemsFrom(_, _, _)
ItemsFrom(segments, requestType, i) ==
    IF i > Len(segments) THEN <<>>
    ELSE LET coll == RequestsOfKind(segments[i].value, requestType)
         IN [j \in DOMAIN coll |-> [ally |-> segments[i].key, req |-> coll[j]]]
            \o ItemsFrom(segments, requestType, i + 1)

\* typeof req !== 'string': the player and room kinds list bare names.
IsStringRequest(requestType) == requestType \in NameKinds
RequestKey(requestType, req) == IF IsStringRequest(requestType) THEN req ELSE req.id

\* A pass that never skips.
AlreadyHandledNever(status, requestType, req) == FALSE

\* A pass that also skips a request whose timeout cycle has passed.
AlreadyHandledOrExpired(status, requestType, req) ==
    ~IsStringRequest(requestType) /\ (HasStatus(status, req.id) \/ req.timeout < time)

\* A skip that looks only at the statuses recorded under the same kind.
AlreadyHandledInKind(status, requestType, req) ==
    /\ ~IsStringRequest(requestType)
    /\ HasStatus(status, req.id)
    /\ HasStatus(requestStatus, req.id) =>
          \E d \in decided : d.key = req.id /\ d.kind = requestType

\* line 603: the request is skipped.
AlreadyHandled(status, requestType, req) ==
    ~IsStringRequest(requestType) /\ HasStatus(status, req.id)

\* A mark that records FULFILLED whatever the handler returned.
MarkRequestFulfilled(status, requestType, req, result) ==
    IF IsStringRequest(requestType) THEN status ELSE SetStatus(status, req.id, FULFILLED)

\* A mark that records the names of the player and room kinds as well.
MarkRequestAlways(status, requestType, req, result) ==
    SetStatus(status, RequestKey(requestType, req), result)

\* A mark that records nothing.
MarkRequestForgotten(status, requestType, req, result) == status

\* markRequest, behind the typeof test of line 610.
MarkRequest(status, requestType, req, result) ==
    IF IsStringRequest(requestType) THEN status ELSE SetStatus(status, req.id, result)

\* A pass that goes on after a handler that did not decide.
StopsOnNever(result) == FALSE

\* line 607: if (result === undefined) return;
StopsOn(result) == result = Undefined

\* The loop body from item i on; st is [status, calls, stopped].
RECURSIVE ProcessFrom(_, _, _, _, _)
ProcessFrom(items, requestType, answers, i, st) ==
    IF i > Len(items) \/ st.stopped THEN st
    ELSE LET ally == items[i].ally
             req == items[i].req
         IN IF AlreadyHandled(st.status, requestType, req)
            THEN ProcessFrom(items, requestType, answers, i + 1, st)
            ELSE LET result == HandlerResult(answers, Len(st.calls) + 1)
                     call == Call("cb", ally, RequestKey(requestType, req), result)
                 IN IF StopsOn(result)
                    THEN [st EXCEPT !.calls = Append(@, call), !.stopped = TRUE]
                    ELSE ProcessFrom(items, requestType, answers, i + 1,
                            [st EXCEPT !.calls = Append(@, call),
                                       !.status = MarkRequest(@, requestType, req, result)])

ProcessRequests(requestType, answers) ==
    /\ phase = "run"
    /\ LET items == ItemsFrom(allySegments, requestType, 1)
           st == ProcessFrom(items, requestType, answers, 1,
                             [status |-> requestStatus, calls |-> <<>>, stopped |-> FALSE])
       IN /\ requestStatus' = st.status
          /\ calls' = st.calls
          /\ decided' = decided \cup
                {[key |-> c.key, status |-> c.result, who |-> c.who, kind |-> requestType] :
                    c \in {x \in Range(st.calls) : x.result # Undefined /\ ~IsStringRequest(requestType)}}
    /\ op' = Op("processRequests", requestType)
    /\ pre' = Snapshot
    /\ returned' = None
    /\ thrown' = FALSE
    /\ UNCHANGED <<time, phase, refreshRate, limits, allies, allyIdx, allySegments, requests,
                   responses, selfInfo, lastUpdateTime, foreignSegment, openSegments,
                   written, builderCalled, pollLog, publishLog>>

\* The handlers that differ on a cache holding n requests of a kind.
Handlers(n) == UNION {[1..j -> {FULFILLED, DISMISSED}] : j \in 0..n}

(***************************************************************************)
(* Request builders (lines 357-508) and setSelf (lines 518-521)            *)
(***************************************************************************)
\* makeRequestID draws a random 20-digit hex string; the model hands out
\* fresh names in order of creation.
LocalIdNames == <<"r1", "r2", "r3", "r4", "r5", "r6">>
RECURSIVE SumLen(_, _)
SumLen(f, ks) ==
    IF ks = {} THEN 0
    ELSE LET k == CHOOSE x \in ks : TRUE IN Len(f[k]) + SumLen(f, ks \ {k})
MakeRequestID == LocalIdNames[SumLen(requests, PriorityKinds) + 1]
TotalRequests == SumLen(requests, AllKinds)
TotalResponses == SumLen(responses, AllKinds)
CanCreate ==
    /\ TotalRequests < limits.requests
    /\ TotalRequests + TotalResponses < limits.total
    /\ SumLen(requests, PriorityKinds) < Len(LocalIdNames)
CanRespond ==
    /\ TotalResponses < limits.responses
    /\ TotalRequests + TotalResponses < limits.total

BuilderFrame ==
    /\ phase = "run"
    /\ calls' = <<>>
    /\ builderCalled' = TRUE
    /\ thrown' = FALSE
    /\ UNCHANGED <<time, phase, refreshRate, limits, allies, allyIdx, allySegments, requestStatus,
                   foreignSegment, openSegments, written, decided, pollLog, publishLog>>

\* A room check that never finds the room.
HasRequestForNever(requestType, roomName) == FALSE

\* this.requests[kind].some((req) => req.roomName === roomName)
HasRequestFor(requestType, roomName) ==
    \E i \in DOMAIN requests[requestType] : requests[requestType][i].roomName = roomName

\* The body shared by the builders of the priority-bearing kinds: build the
\* request, insert it sorted, stamp the last update, return the id.
Enqueue(requestType, roomName, priority, timeout) ==
    LET id == MakeRequestID
        request == Req(id, roomName, CheckPriority(priority), timeout)
    IN /\ requests' = [requests EXCEPT ![requestType] = InsertSorted(@, request)]
       /\ lastUpdateTime' = time
       /\ returned' = Some(id)

\* The body of requestDefense, requestAttack, requestWork and requestFunnel:
\* a room that already has a request of the kind is logged and ignored.
EnqueueOncePerRoom(requestType, roomName, priority, timeout) ==
    IF HasRequestFor(requestType, roomName)
    THEN /\ returned' = None
         /\ UNCHANGED <<requests, lastUpdateTime>>
    ELSE /\ CanCreate
         /\ Enqueue(requestType, roomName, priority, timeout)

RequestResource(roomName, priority, timeout) ==
    /\ BuilderFrame
    /\ CanCreate
    /\ Enqueue("resource", roomName, priority, timeout)
    /\ op' = Op("requestResource", roomName)
    /\ pre' = Snapshot
    /\ UNCHANGED <<responses, selfInfo>>

RequestDefense(roomName, priority, timeout) ==
    /\ BuilderFrame
    /\ EnqueueOncePerRoom("defense", roomName, priority, timeout)
    /\ op' = Op("requestDefense", roomName)
    /\ pre' = Snapshot
    /\ UNCHANGED <<responses, selfInfo>>

RequestAttack(roomName, priority, timeout) ==
    /\ BuilderFrame
    /\ EnqueueOncePerRoom("attack", roomName, priority, timeout)
    /\ op' = Op("requestAttack", roomName)
    /\ pre' = Snapshot
    /\ UNCHANGED <<responses, selfInfo>>

RequestWork(roomName, priority, timeout) ==
    /\ BuilderFrame
    /\ EnqueueOncePerRoom("work", roomName, priority, timeout)
    /\ op' = Op("requestWork", roomName)
    /\ pre' = Snapshot
    /\ UNCHANGED <<responses, selfInfo>>

RequestFunnel(roomName, priority, timeout) ==
    /\ BuilderFrame
    /\ EnqueueOncePerRoom("funnel", roomName, priority, timeout)
    /\ op' = Op("requestFunnel", roomName)
    /\ pre' = Snapshot
    /\ UNCHANGED <<responses, selfInfo>>

\* requestPlayerIntel / requestRoomIntel: Set.add, then the stamp.
AddName(requestType, name) ==
    /\ name \in Range(requests[requestType]) \/ CanCreate
    /\ requests' = [requests EXCEPT ![requestType] = SetAdd(@, name)]
    /\ lastUpdateTime' = time
    /\ returned' = None

RequestPlayerIntel(playerName) ==
    /\ BuilderFrame
    /\ AddName("player", playerName)
    /\ op' = Op("requestPlayerIntel", playerName)
    /\ pre' = Snapshot
    /\ UNCHANGED <<responses, selfInfo>>

RequestRoomIntel(roomName) ==
    /\ BuilderFrame
    /\ AddName("room", roomName)
    /\ op' = Op("requestRoomIntel", roomName)
    /\ pre' = Snapshot
    /\ UNCHANGED <<responses, selfInfo>>

SetSelf(info) ==
    /\ BuilderFrame
    /\ selfInfo' = info
    /\ lastUpdateTime' = time
    /\ returned' = None
    /\ op' = Op("setSelf", info)
    /\ pre' = Snapshot
    /\ UNCHANGED <<requests, responses>>

(***************************************************************************)
(* Reply builders (lines 525-587)                                          *)
(***************************************************************************)
\* amount > 0 ? FULFILLED : DISMISSED (and the same on creepCount)
\* A status rule that takes a zero count for help given.
StatusOfNonNegative(count) == IF count >= 0 THEN FULFILLED ELSE DISMISSED

StatusOf(count) == IF count > 0 THEN FULFILLED ELSE DISMISSED

\* this.responses[kind][key] = response, then the stamp.
StoreResponse(requestType, key, response) ==
    /\ ObjHas(responses[requestType], key) \/ CanRespond
    /\ responses' = [responses EXCEPT ![requestType] = ObjSet(@, key, response)]
    /\ lastUpdateTime' = time
    /\ returned' = None
    /\ UNCHANGED <<requests, selfInfo>>

ReplyResource(requestId, amount) ==
    /\ BuilderFrame
    /\ StoreResponse("resource", requestId, [id |-> requestId, status |-> StatusOf(amount)])
    /\ op' = OpWith("replyResource", requestId, amount)
    /\ pre' = Snapshot

\* The eta of a room response is copied when given and is left out.
RoomResponse(requestId, creepCount) ==
    [id |-> requestId, status |-> StatusOf(creepCount), creepCount |-> creepCount]

ReplyAttack(requestId, creepCount) ==
    /\ BuilderFrame
    /\ StoreResponse("attack", requestId, RoomResponse(requestId, creepCount))
    /\ op' = OpWith("replyAttack", requestId, creepCount)
    /\ pre' = Snapshot

ReplyDefense(requestId, creepCount) ==
    /\ BuilderFrame
    /\ StoreResponse("defense", requestId, RoomResponse(requestId, creepCount))
    /\ op' = OpWith("replyDefense", requestId, creepCount)
    /\ pre' = Snapshot

\* A work reply that is stored in the funnel map.
ReplyWorkAsFunnel(requestId, creepCount) ==
    /\ BuilderFrame
    /\ StoreResponse("funnel", requestId, RoomResponse(requestId, creepCount))
    /\ op' = OpWith("replyWork", requestId, creepCount)
    /\ pre' = Snapshot

ReplyWork(requestId, creepCount) ==
    /\ BuilderFrame
    /\ StoreResponse("work", requestId, RoomResponse(requestId, creepCount))
    /\ op' = OpWith("replyWork", requestId, creepCount)
    /\ pre' = Snapshot

ReplyIntel(roomName, intel) ==
    /\ BuilderFrame
    /\ StoreResponse("room", roomName, intel)
    /\ op' = OpWith("replyIntel", roomName, intel)
    /\ pre' = Snapshot

ReplyPlayer(playerName, info) ==
    /\ BuilderFrame
    /\ StoreResponse("player", playerName, info)
    /\ op' = OpWith("replyPlayer", playerName, info)
    /\ pre' = Snapshot

(***************************************************************************)
(* endRun (lines 276-343) with purgeResponses (lines 261-269)              *)
(***************************************************************************)
\* A ceiling test that never reports the ceiling.
CanOpenSegmentNever == FALSE

\* canOpenSegment (lines 151-153): true when the ceiling is reached.
CanOpenSegment == openSegments >= MAX_OPEN_SEGMENTS

\* The keys visible in the cached segments (lines 292-306).
VisibleIds ==
    {r.id : r \in UNION {Range(RequestsOfKind(allySegments[i].value, k)) :
                            i \in DOMAIN allySegments, k \in PriorityKinds}}
VisibleNames(requestType) ==
    UNION {Range(RequestsOfKind(allySegments[i].value, requestType)) : i \in DOMAIN allySegments}

\* The test purgeResponses applies to each key of the map (line 263).
PurgeTest(id, set) == id \in set

\* purgeResponses: walks the map in key order, deletes the first key that
\* passes the test and returns true at once; false if none does.
PurgeResponses(obj, set) ==
    LET hits == {i \in DOMAIN obj : PurgeTest(obj[i].key, set)}
    IN IF hits = {} THEN [obj |-> obj, result |-> "false"]
       ELSE LET first == CHOOSE i \in hits : \A j \in hits : i <= j
            IN [obj |-> ObjDelete(obj, obj[first].key), result |-> "true"]

\* The set endRun hands to purgeResponses for the map of a kind (310-316).
VisibleKeys(requestType) ==
    IF requestType \in PriorityKinds THEN VisibleIds ELSE VisibleNames(requestType)

\* One call this.purgeResponses(this.responses[kind], set) on its own, with
\* the set endRun would hand it: the map is changed in place and the result
\* is returned.
PurgeCall(requestType) ==
    LET r == PurgeResponses(responses[requestType], VisibleKeys(requestType))
    IN /\ phase = "run"
       /\ responses' = [responses EXCEPT ![requestType] = r.obj]
       /\ returned' = Some(r.result)
       /\ op' = Op("purgeResponses", requestType)
       /\ pre' = Snapshot
       /\ calls' = <<>>
       /\ thrown' = FALSE
       /\ UNCHANGED <<time, phase, refreshRate, limits, allies, allyIdx, allySegments, requests,
                      requestStatus, selfInfo, lastUpdateTime, foreignSegment, openSegments,
                      written, decided, builderCalled, pollLog, publishLog>>

\* didUpdate ||= rhs : the right side runs as long as didUpdate is not true.
LogicalOrAssignRuns(didUpdate) == didUpdate # "true"

\* didUpdate ??= rhs : the right side runs only when didUpdate is null or
\* undefined.
NullishAssignRuns(didUpdate) == didUpdate = Undefined

\* One line of 310-316; st is [responses, didUpdate].
PurgeStep(st, requestType, set) ==
    IF NullishAssignRuns(st.didUpdate)
    THEN LET r == PurgeResponses(st.responses[requestType], set)
         IN [responses |-> [st.responses EXCEPT ![requestType] = r.obj], didUpdate |-> r.result]
    ELSE st

\* Lines 308-316: didUpdate starts as false.
PurgePass ==
    LET s0 == [responses |-> responses, didUpdate |-> "false"]
        s1 == PurgeStep(s0, "resource", VisibleIds)
        s2 == PurgeStep(s1, "attack", VisibleIds)
        s3 == PurgeStep(s2, "defense", VisibleIds)
        s4 == PurgeStep(s3, "work", VisibleIds)
        s5 == PurgeStep(s4, "funnel", VisibleIds)
        s6 == PurgeStep(s5, "player", VisibleNames("player"))
    IN PurgeStep(s6, "room", VisibleNames("room"))

\* Lines 278-280.
\* A last-update test that never sees an update.
DoUpdateNever == FALSE

DoUpdate == lastUpdateTime = time
DoRefresh == IsRefreshBoundary(time, refreshRate, Len(allies))
\* A publish that looks at the last update only.
ShouldPublishOnUpdate == DoUpdate
ShouldPublish == DoUpdate \/ DoRefresh

\* A publish that writes and does not mark the slot public.
PublishCallsWriteOnly == <<Call("writeSegment", "", "90", Undefined)>>

\* lines 341-342: writeSegment(90, segment), then markPublic(90).
PublishCalls ==
    <<Call("writeSegment", "", "90", Undefined), Call("markPublic", "", "90", Undefined)>>

EndRunBody ==
    /\ phase = "run"
    /\ phase' = "done"
    /\ op' = Op("endRun", "")
    /\ pre' = Snapshot
    /\ returned' = None
    /\ thrown' = FALSE
    /\ IF ~ShouldPublish \/ CanOpenSegment
       THEN /\ calls' = <<>>
            /\ UNCHANGED <<responses, lastUpdateTime, written>>
       ELSE LET purged == IF DoRefresh THEN PurgePass
                          ELSE [responses |-> responses, didUpdate |-> "false"]
                segment == MakeSegment(time, requests, purged.responses, selfInfo)
            IN /\ responses' = purged.responses
               /\ lastUpdateTime' = IF purged.didUpdate = "true" THEN time ELSE lastUpdateTime
               /\ written' = Some(JsonStringify(segment))
               /\ calls' = PublishCalls
    /\ UNCHANGED <<time, refreshRate, limits, allies, allyIdx, allySegments, requests,
                   requestStatus, selfInfo, foreignSegment, openSegments, decided, builderCalled, pollLog>>

\* publishLog is an observation of the run, like pollLog: a specification
\* either records each endRun in it (LogPublish) or leaves it alone. An entry
\* says whether a builder stamped a change in that tick, whether the
\* open-segment ceiling was reached, whether the tick is a full-refresh
\* boundary, and whether endRun wrote.
EndRun == EndRunBody /\ UNCHANGED publishLog

LogPublish ==
    publishLog' = Append(publishLog,
        [t |-> time,
         due |-> builderCalled /\ lastUpdateTime = time,
         ceiling |-> openSegments >= MAX_OPEN_SEGMENTS,
         boundary |-> Len(allies) >= 1 /\ time % (refreshRate * Len(allies)) = 0,
         wrote |-> written' # None])
EndRunLogged == EndRunBody /\ LogPublish

(***************************************************************************)
(* Inputs                                                                  *)
(***************************************************************************)
PriorityArgs == {None, Some(Num(-5)), Some(Num(5)), Some(Num(15)), Some(NaN)}
Timeouts == {0, 5}
OpenCounts == {0, MAX_OPEN_SEGMENTS}
Counts == {0, 3}
IntelValues == {"intelA", "intelB"}
SelfInfos == {"self1"}

RequestWith(rooms, priorities, timeouts) ==
    \/ \E room \in rooms, p \in priorities, to \in timeouts : RequestResource(room, p, to)
    \/ \E room \in rooms, p \in priorities, to \in timeouts : RequestDefense(room, p, to)
    \/ \E room \in rooms, p \in priorities, to \in timeouts : RequestAttack(room, p, to)
    \/ \E room \in rooms, p \in priorities, to \in timeouts : RequestWork(room, p, to)
    \/ \E room \in rooms, p \in priorities, to \in timeouts : RequestFunnel(room, p, to)
    \/ \E name \in Players : RequestPlayerIntel(name)
    \/ \E room \in rooms : RequestRoomIntel(room)

Request == RequestWith(Rooms, PriorityArgs, Timeouts)

Describe == \E info \in SelfInfos : SetSelf(info)

ReplyWith(ids, counts, rooms, values) ==
    \/ \E id \in ids, n \in counts : ReplyResource(id, n)
    \/ \E id \in ids, n \in counts : ReplyAttack(id, n)
    \/ \E id \in ids, n \in counts : ReplyDefense(id, n)
    \/ \E id \in ids, n \in counts : ReplyWork(id, n)
    \/ \E room \in rooms, v \in values : ReplyIntel(room, v)
    \/ \E name \in Players, v \in values : ReplyPlayer(name, v)

Reply == ReplyWith(PeerIds, Counts, Rooms, IntelValues)

\* The most handler calls one pass over the cache can make: one per cached
\* name, or one per cached id that has no status yet.
MaxInvocations(k) ==
    LET items == ItemsFrom(allySegments, k, 1)
    IN IF IsStringRequest(k) THEN Len(items)
       ELSE Cardinality({items[i].req.id : i \in DOMAIN items} \ DOMAIN requestStatus)

Process ==
    \E k \in AllKinds :
        \E answers \in Handlers(MaxInvocations(k)) : ProcessRequests(k, answers)

Membership ==
    \/ \E p \in Peers : AddAlly(p)
    \/ \E p \in Peers : RemoveAlly(p)

HostCache == \E p \in Peers, seg \in PeerSegments : HostSetAllySegment(p, seg)

(***************************************************************************)
(* The engine under any host and any transport                             *)
(***************************************************************************)
Next ==
    \/ \E fs \in ForeignSegments, open \in OpenCounts : Tick(fs, open)
    \/ Membership
    \/ InitRun
    \/ HostCache
    \/ Process
    \/ Request
    \/ Describe
    \/ Reply
    \/ EndRun

Spec == Init /\ [][Next]_vars

(***************************************************************************)
(* The poller: a host that changes its allies and calls initRun, over any  *)
(* transport.                                                              *)
(***************************************************************************)
PollPayloads ==
    {NotJson,
     JsonStringify(JsonValue(FALSE, "missing", "missing", FALSE, 0, EmptyRequests, EmptyResponses, Undefined)),
     JsonStringify(JsonValue(TRUE, "array", "array", FALSE, 0, EmptyRequests, EmptyResponses, Undefined)),
     JsonStringify(ArraySegment),
     JsonStringify(MakeSegment(1, PeerRequestsA, EmptyResponses, Undefined))}
PollForeign ==
    {NoForeign}
    \cup {Foreign(p, SIMPLE_ALLIES_SEGMENT_ID, d) : p \in Peers, d \in PollPayloads}
    \cup {Foreign(p, SIMPLE_ALLIES_SEGMENT_ID + 1, JsonStringify(ArraySegment)) : p \in Peers}

NextPoll ==
    \/ \E fs \in PollForeign : Tick(fs, 0)
    \/ phase = "start" /\ Membership
    \/ InitRun

SpecPoll == Init /\ [][NextPoll]_vars

(***************************************************************************)
(* Round robin: a fixed, non-empty set of allies (the state after the      *)
(* constructor and addAlly), a refresh rate of at least 2, and a host that *)
(* calls initRun in every tick.                                            *)
(***************************************************************************)
MaxPollTime == 13

AllySeqs == {<<p>> : p \in Peers} \cup {<<p, q>> : p, q \in Peers}
InitRoundRobin ==
    Constructed(RefreshRates \ {1}, {a \in AllySeqs : Cardinality(Range(a)) = Len(a)},
                Limits(MaxRequests, MaxResponses, MaxRequests + MaxResponses))

NextRoundRobin ==
    \/ InitRunLogged
    \/ \E fs \in PollForeign : phase = "run" /\ TickUpTo(MaxPollTime, fs, 0)

SpecRoundRobin == InitRoundRobin /\ [][NextRoundRobin]_vars

(***************************************************************************)
(* Schedule: a fixed, non-empty set of allies, any refresh rate from 1 on, *)
(* and a host that calls initRun in every tick from tick 0 on.             *)
(***************************************************************************)
MaxScheduleTime == 7

ScheduleForeign ==
    {NoForeign} \cup {Foreign(p, SIMPLE_ALLIES_SEGMENT_ID, JsonStringify(ArraySegment)) : p \in Peers}
InitSchedule ==
    Constructed(RefreshRates, {a \in AllySeqs : Cardinality(Range(a)) = Len(a)}, Limits(0, 0, 0))

NextSchedule ==
    \/ InitRunLogged
    \/ \E fs \in ScheduleForeign : phase = "run" /\ TickUpTo(MaxScheduleTime, fs, 0)

SpecSchedule == InitSchedule /\ [][NextSchedule]_vars

(***************************************************************************)
(* Processing: a host that fills the cache and hands the cached requests   *)
(* to its handlers; the transport delivers nothing.                        *)
(***************************************************************************)
MaxProcessTime == 1

\* The state after the constructor with refreshRate 1 (every tick reads the
\* current ally) and addAlly('p1', 'p2').
InitProcess ==
    Constructed({1}, {<<"p1", "p2">>}, Limits(MaxRequests, MaxResponses, MaxRequests + MaxResponses))

NextProcess ==
    \/ TickUpTo(MaxProcessTime, NoForeign, 0)
    \/ InitRun
    \/ phase = "run" /\ HostCache
    \/ Process

SpecProcess == InitProcess /\ [][NextProcess]_vars

(***************************************************************************)
(* Building: a host that enqueues requests within one tick.                *)
(***************************************************************************)
InitBuild == Constructed({1}, {<<>>}, Limits(MaxRequests, 0, MaxRequests))

NextBuild ==
    \/ InitRun
    \/ RequestWith(Rooms, PriorityArgs, {0})

SpecBuild == InitBuild /\ [][NextBuild]_vars

(***************************************************************************)
(* Publishing: a host with zero, one or two allies that runs the cycle     *)
(* initRun, builders, endRun over several ticks; the transport delivers    *)
(* nothing and the number of open segments changes from tick to tick.      *)
(***************************************************************************)
MaxPublishItems == 1
MaxPublishTime == 2

InitPublish ==
    Constructed(RefreshRates, {<<>>, <<"p1">>, <<"p1", "p2">>},
                Limits(MaxPublishItems, MaxPublishItems, MaxPublishItems))

NextPublish ==
    \/ \E open \in OpenCounts : TickUpTo(MaxPublishTime, NoForeign, open)
    \/ InitRun
    \/ RequestWith({"W1N1"}, {None}, {0})
    \/ Describe
    \/ ReplyWith({"a"}, {3}, {"W1N1"}, {"intelA"})
    \/ EndRun

SpecPublish == InitPublish /\ [][NextPublish]_vars

(***************************************************************************)
(* Retrying: the publishing host again, with every endRun recorded in      *)
(* publishLog, so that what an endRun does can be set against what the     *)
(* endRun of an earlier tick met.                                          *)
(***************************************************************************)
MaxRetryTime == 2

InitRetry ==
    Constructed(RefreshRates, {<<>>, <<"p1">>, <<"p1", "p2">>},
                Limits(MaxPublishItems, MaxPublishItems, MaxPublishItems))

NextRetry ==
    \/ \E open \in OpenCounts : TickUpTo(MaxRetryTime, NoForeign, open)
    \/ InitRun
    \/ RequestWith({"W1N1"}, {None}, {0})
    \/ Describe
    \/ ReplyWith({"a"}, {3}, {"W1N1"}, {"intelA"})
    \/ EndRunLogged

SpecRetry == InitRetry /\ [][NextRetry]_vars

(***************************************************************************)
(* Life: a host that does everything a host does, in the order of the host *)
(* loop: it changes its allies, calls initRun over a transport that        *)
(* delivers nothing, another owner's segment, text that is not JSON or a   *)
(* well-formed segment, fills the cache, processes, builds and calls       *)
(* endRun below and at the open-segment ceiling.                           *)
(***************************************************************************)
MaxLifeTime == 2
MaxLifeItems == 1

LifeForeign ==
    {NoForeign}
    \cup {Foreign("p1", SIMPLE_ALLIES_SEGMENT_ID, d) : d \in {NotJson, JsonStringify(ArraySegment)}}
    \cup {Foreign("p2", SIMPLE_ALLIES_SEGMENT_ID, JsonStringify(ArraySegment))}
LifeSegment ==
    MakeSegment(1, [PeerRequestsA EXCEPT !["player"] = <<"n1">>], EmptyResponses, Undefined)

InitLife ==
    Constructed({2}, {<<>>, <<"p1">>}, Limits(MaxLifeItems, MaxLifeItems, MaxLifeItems))

NextLife ==
    \/ \E fs \in LifeForeign, open \in OpenCounts : TickUpTo(MaxLifeTime, fs, open)
    \/ phase = "start" /\ (AddAlly("p1") \/ RemoveAlly("p1"))
    \/ InitRun
    \/ phase = "run" /\ HostSetAllySegment("p1", LifeSegment)
    \/ \E k \in {"resource", "player"} :
          \E answers \in Handlers(MaxInvocations(k)) : ProcessRequests(k, answers)
    \/ RequestResource("W1N1", None, 0)
    \/ RequestPlayerIntel("n1")
    \/ ReplyResource("a", 3)
    \/ EndRun

SpecLife == InitLife /\ [][NextLife]_vars

(***************************************************************************)
(* The purge helper on its own: a host that fills the cache, replies, and  *)
(* has purgeResponses called on each response map with the keys the cache  *)
(* makes visible.                                                          *)
(***************************************************************************)
MaxHelperResponses == 2

InitHelper ==
    Constructed({1}, {<<"p1", "p2">>}, Limits(0, MaxHelperResponses, MaxHelperResponses))

NextHelper ==
    \/ InitRun
    \/ phase = "run" /\ HostCache
    \/ ReplyWith(PeerIds, {3}, {"W1N1"}, {"intelA"})
    \/ \E k \in AllKinds : PurgeCall(k)

SpecHelper == InitHelper /\ [][NextHelper]_vars

(***************************************************************************)
(* Inserting: a host that enqueues resource requests, which have no        *)
(* one-per-room rule, with every kind of priority argument.                *)
(***************************************************************************)
MaxInsertRequests == 3

InitInsert == Constructed({1}, {<<>>}, Limits(MaxInsertRequests, 0, MaxInsertRequests))

NextInsert ==
    \/ InitRun
    \/ \E room \in Rooms, p \in PriorityArgs : RequestResource(room, p, 0)

SpecInsert == InitInsert /\ [][NextInsert]_vars

(***************************************************************************)
(* Replying: a host that answers the requests with two ids, kind by kind,  *)
(* with a negative, a zero and a positive count or amount.                 *)
(***************************************************************************)
MaxReplyResponses == 2
ReplyCounts == {-1, 0, 3}

InitReply == Constructed({1}, {<<>>}, Limits(0, MaxReplyResponses, MaxReplyResponses))

NextReply ==
    \/ InitRun
    \/ ReplyWith(PeerIds, ReplyCounts, {"W1N1"}, IntelValues)

SpecReply == InitReply /\ [][NextReply]_vars

(***************************************************************************)
(* Outbox: a host without allies that asks for help in one room, with and  *)
(* without a priority, describes itself and publishes, over two ticks.     *)
(***************************************************************************)
MaxOutboxRequests == 2
MaxOutboxTime == 1
OutboxPriorities == {None, Some(Num(5))}

InitOutbox == Constructed({1}, {<<>>}, Limits(MaxOutboxRequests, 0, MaxOutboxRequests))

NextOutbox ==
    \/ TickUpTo(MaxOutboxTime, NoForeign, 0)
    \/ InitRun
    \/ RequestWith({"W1N1"}, OutboxPriorities, {0})
    \/ Describe
    \/ EndRun

SpecOutbox == InitOutbox /\ [][NextOutbox]_vars

(***************************************************************************)
(* Purging: a host with two allies whose cache is filled, that answers     *)
(* requests and publishes; with refreshRate 1 every second tick is a       *)
(* full-refresh boundary.                                                  *)
(***************************************************************************)
MaxPurgeTime == 2
MaxPurgeResponses == 1

InitPurge == Constructed({1}, {<<"p1", "p2">>}, Limits(0, MaxPurgeResponses, MaxPurgeResponses))

NextPurge ==
    \/ \E open \in OpenCounts : TickUpTo(MaxPurgeTime, NoForeign, open)
    \/ InitRun
    \/ phase = "run" /\ HostCache
    \/ ReplyWith(PeerIds, {3}, {"W1N1"}, {"intelA"})
    \/ EndRun

SpecPurge == InitPurge /\ [][NextPurge]_vars

(***************************************************************************)
(* Properties                                                              *)
(***************************************************************************)
\* The poller's phase of the tick whose initRun has just run.
InitRunDone == op.name = "initRun"
ConsumePhase == Len(allies) > 0 /\ Clock(time, refreshRate) = 0
CurrentPeer == AllyAt(pre.allyIdx)

SameEntry(o1, o2, k) ==
    /\ ObjHas(o1, k) <=> ObjHas(o2, k)
    /\ ObjHas(o1, k) => ObjGet(o1, k) = ObjGet(o2, k)

\* The events of the poll log for peer p in the ticks from..to.
PollEvents(fn, p, from, to) ==
    {i \in DOMAIN pollLog :
        /\ pollLog[i].call.fn = fn
        /\ pollLog[i].call.who = p
        /\ pollLog[i].t >= from
        /\ pollLog[i].t <= to}

\* The last tick whose initRun has run.
LastPolledTick == IF phase = "start" THEN time - 1 ELSE time

\* C6 (round-robin fairness): with a fixed non-empty peer set, a refresh
\* rate r >= 2 and initRun called in every tick, every window of r * n
\* consecutive ticks that starts at a tick >= 1 holds exactly one
\* setForeignSegment call and exactly one readForeignSegment call for each
\* peer.
RoundRobinFair ==
    LET w == refreshRate * Len(allies)
    IN \A from \in 1..MaxPollTime :
          from + w - 1 <= LastPolledTick =>
             \A p \in Range(allies) :
                /\ Cardinality(PollEvents("setForeignSegment", p, from, from + w - 1)) = 1
                /\ Cardinality(PollEvents("readForeignSegment", p, from, from + w - 1)) = 1

\* C6 witness: two peers, two full windows polled, both peers activated and read.
RoundRobinWitness ==
    /\ Len(allies) = 2
    /\ LastPolledTick >= 2 * refreshRate * Len(allies)
    /\ \A p \in Range(allies) :
          /\ PollEvents("setForeignSegment", p, 1, time) # {}
          /\ PollEvents("readForeignSegment", p, 1, time) # {}

\* What a peer engine's endRun writes: JSON text of an object with updatedAt,
\* a requests object and a responses object.
IsEndRunOutput(data) ==
    /\ data.parses
    /\ data.value.isObject
    /\ data.value.requestsShape = "object"
    /\ data.value.responsesShape = "object"
    /\ data.value.updatedAtIsNumber

\* C7 (publish/read round trip): when the transport delivers, for the
\* current peer and slot 90, a payload that an engine's endRun produced, then
\* after the initRun of a consume tick the cache entry of that peer is that
\* segment.
RoundTripCached ==
    (/\ InitRunDone
     /\ ConsumePhase
     /\ foreignSegment.present
     /\ foreignSegment.username = CurrentPeer
     /\ foreignSegment.id = SIMPLE_ALLIES_SEGMENT_ID
     /\ IsEndRunOutput(foreignSegment.data))
    => /\ ObjHas(allySegments, CurrentPeer)
       /\ ObjGet(allySegments, CurrentPeer) = foreignSegment.data.value

\* A payload that is no segment on any reading: not JSON, not an object,
\* or without requests, responses or a numeric updatedAt.
Malformed(data) ==
    \/ ~data.parses
    \/ ~data.value.isObject
    \/ data.value.requestsShape = "missing"
    \/ data.value.responsesShape = "missing"
    \/ ~data.value.updatedAtIsNumber

FailedDelivery(fs, ally) ==
    \/ ~fs.present
    \/ fs.username # ally
    \/ fs.id # SIMPLE_ALLIES_SEGMENT_ID
    \/ Malformed(fs.data)

\* C8 (eviction on failed read): after the initRun of a consume tick in
\* which the transport had no foreign segment, or one of another owner or
\* slot, or one with a malformed payload, the cache has no entry for the
\* current peer and the entries of all other peers are as before.
EvictionOnFailedRead ==
    (InitRunDone /\ ConsumePhase /\ FailedDelivery(foreignSegment, CurrentPeer))
    => /\ ~ObjHas(allySegments, CurrentPeer)
       /\ \A q \in Peers \ {CurrentPeer} : SameEntry(allySegments, pre.allySegments, q)

\* C8 witness: a failed read removed an earlier entry of the current peer and
\* left another peer's entry in the cache.
EvictionWitness ==
    /\ InitRunDone
    /\ ConsumePhase
    /\ FailedDelivery(foreignSegment, CurrentPeer)
    /\ ObjHas(pre.allySegments, CurrentPeer)
    /\ \E q \in Peers \ {CurrentPeer} : ObjHas(allySegments, q)

\* The ids of one kind in the cached segments.
CachedIds(requestType) ==
    {r.id : r \in UNION {Range(RequestsOfKind(allySegments[i].value, requestType)) :
                            i \in DOMAIN allySegments}}
DecidedIds == {d.key : d \in decided}
PassDone(requestType) == op.name = "processRequests" /\ op.arg = requestType
AllTerminal(cs) == \A i \in DOMAIN cs : cs[i].result # Undefined

\* C1 (at-most-once processing): a processRequests pass over a
\* priority-bearing kind never calls the handler for an id for which the
\* handler has returned FULFILLED or DISMISSED before, in an earlier pass or
\* earlier in the same pass.
AtMostOnce ==
    [][(op'.name = "processRequests" /\ op'.arg \in PriorityKinds) =>
          /\ \A i \in DOMAIN calls' : calls'[i].key \notin DecidedIds
          /\ \A i, j \in DOMAIN calls' : i # j => calls'[i].key # calls'[j].key]_vars

\* C1 witness: a pass over a kind whose cache holds an id decided in an
\* earlier pass; the pass made no call for it.
AtMostOnceWitness ==
    \E k \in PriorityKinds :
        /\ PassDone(k)
        /\ \E id \in CachedIds(k) \cap DecidedIds : \A i \in DOMAIN calls : calls[i].key # id

\* C2 (terminal statuses are recorded): after a pass over a priority-bearing
\* kind, every id the handler answered with a terminal status has exactly
\* that status in requestStatus; if the handler answered every call with a
\* terminal status, every cached id of the kind has the status the handler
\* returned for it; and a pass of the same kind right after such a pass
\* makes no handler call.
TerminalStatusRecorded ==
    /\ [](\A k \in PriorityKinds :
            PassDone(k) =>
               /\ \A i \in DOMAIN calls :
                     calls[i].result # Undefined =>
                        /\ HasStatus(requestStatus, calls[i].key)
                        /\ requestStatus[calls[i].key] = calls[i].result
               /\ AllTerminal(calls) =>
                     \A id \in CachedIds(k) :
                        /\ HasStatus(requestStatus, id)
                        /\ \E d \in decided : d.key = id /\ d.status = requestStatus[id])
    /\ [][\A k \in PriorityKinds :
            (PassDone(k) /\ AllTerminal(calls) /\ op'.name = "processRequests" /\ op'.arg = k)
               => calls' = <<>>]_vars

\* C2 witness: the handler returned FULFILLED for "a" and then DISMISSED for
\* "b" in one pass over the resource requests.
TerminalStatusWitness ==
    /\ PassDone("resource")
    /\ Len(calls) = 2
    /\ calls[1].key = "a" /\ calls[1].result = FULFILLED
    /\ calls[2].key = "b" /\ calls[2].result = DISMISSED
    /\ requestStatus = [id \in {"a", "b"} |-> IF id = "a" THEN FULFILLED ELSE DISMISSED]

(***************************************************************************)
(* Local request sequences                                                 *)
(***************************************************************************)
\* earlier.priority >= later.priority for all adjacent elements.
NonIncreasing(seq) ==
    \A i \in 1..(Len(seq) - 1) : JsGreaterEq(seq[i].priority, seq[i + 1].priority)
StoresNaN == \E k \in PriorityKinds : \E i \in DOMAIN requests[k] : requests[k][i].priority = NaN

\* C5 (sorted invariant): after every sequence of requestResource,
\* requestDefense, requestAttack, requestWork and requestFunnel calls, each of
\* the five local request sequences is non-increasing in priority.
SortedInvariant == \A k \in PriorityKinds : NonIncreasing(requests[k])

\* The same over the runs in which no NaN priority was handed in: the
\* sequences of finite priorities are non-increasing.
SortedWhenFinite == ~StoresNaN => SortedInvariant

(***************************************************************************)
(* Publishing                                                              *)
(***************************************************************************)
EndRunDone == op.name = "endRun"
\* Game.time mod (refreshRate * peerCount) = 0, for at least one peer.
FullRefreshBoundary == Len(allies) >= 1 /\ time % (refreshRate * Len(allies)) = 0
CeilingReached == openSegments >= 10
WriteCalls == {i \in DOMAIN calls : calls[i].fn = "writeSegment"}

\* C9 (publish gating): an endRun call writes the outgoing segment at most
\* once, and only if a builder was called in this tick or this tick is a
\* full-refresh boundary; otherwise, also in the first tick of a freshly
\* constructed engine, it writes nothing.
PublishGated ==
    EndRunDone =>
        /\ Cardinality(WriteCalls) <= 1
        /\ (written # None \/ WriteCalls # {}) => (builderCalled \/ FullRefreshBoundary)

\* The same from the second tick on.
PublishGatedAfterFirstTick == time > 0 => PublishGated

\* C10 (periodic full refresh): with at least one peer, an endRun in a tick
\* with Game.time mod (refreshRate * peerCount) = 0 and the open-segment
\* ceiling not reached publishes the segment, also when no builder was called
\* in that tick.
PeriodicRefresh ==
    (EndRunDone /\ FullRefreshBoundary /\ ~CeilingReached) =>
        /\ written # None
        /\ Cardinality(WriteCalls) = 1

\* C10 witness: an endRun at a boundary after tick 0, in a tick without any
\* builder call and long after the last update, has published.
PeriodicRefreshWitness ==
    /\ EndRunDone
    /\ FullRefreshBoundary
    /\ ~CeilingReached
    /\ time > 0
    /\ ~builderCalled
    /\ lastUpdateTime < time
    /\ written # None

(***************************************************************************)
(* Purging                                                                 *)
(***************************************************************************)
\* The keys a cached segment asks about: its request ids, or its player or
\* room names.
AskedIn(segment, requestType) ==
    IF requestType \in NameKinds
    THEN Range(RequestsOfKind(segment, requestType))
    ELSE {r.id : r \in UNION {Range(RequestsOfKind(segment, k)) : k \in PriorityKinds}}
AskedByPeers(cache, requestType) ==
    UNION {AskedIn(cache[i].value, requestType) : i \in DOMAIN cache}

\* C3 (purge removes orphaned responses): after an endRun at a full-refresh
\* boundary with the open-segment ceiling not reached, no response map holds
\* a key that is absent from the request collections of every cached peer
\* segment, and neither does the published segment.
OrphansPurged ==
    (EndRunDone /\ FullRefreshBoundary /\ ~CeilingReached) =>
        \A k \in AllKinds :
            \A key \in Range(ObjKeys(pre.responses[k])) :
                key \notin AskedByPeers(pre.allySegments, k) =>
                    /\ ~ObjHas(responses[k], key)
                    /\ written # None => ~ObjHas(written[1].value.responses[k], key)

\* C4 (purge removes nothing else): no endRun deletes a response whose key
\* is in the request collections of at least one cached peer segment,
\* whichever of the cached segments it is.
VisibleKept ==
    EndRunDone =>
        \A k \in AllKinds :
            \A key \in Range(ObjKeys(pre.responses[k])) :
                key \in AskedByPeers(pre.allySegments, k) =>
                    /\ ObjHas(responses[k], key)
                    /\ ObjGet(responses[k], key) = ObjGet(pre.responses[k], key)

\* C4 witness: an endRun at a full-refresh boundary has published while two
\* segments were cached and a response was held for a key that only the
\* first of them asks about.
VisibleKeptWitness ==
    /\ EndRunDone
    /\ FullRefreshBoundary
    /\ ~CeilingReached
    /\ written # None
    /\ Len(pre.allySegments) = 2
    /\ \E k \in AllKinds :
          \E key \in Range(ObjKeys(pre.responses[k])) :
              /\ key \in AskedIn(pre.allySegments[1].value, k)
              /\ key \notin AskedIn(pre.allySegments[2].value, k)
              /\ ObjHas(responses[k], key)

(***************************************************************************)
(* Capacity                                                                *)
(***************************************************************************)
\* C11 (capacity back-off): an endRun that runs with the number of open
\* segments at the ceiling (>= 10) writes nothing, makes no markPublic call
\* and leaves requests, responses, requestStatus, the peer cache and the
\* last-update marker as they were.
CapacityBackOff ==
    (EndRunDone /\ CeilingReached) =>
        /\ written = None
        /\ calls = <<>>
        /\ requests = pre.requests
        /\ responses = pre.responses
        /\ requestStatus = pre.requestStatus
        /\ allySegments = pre.allySegments
        /\ lastUpdateTime = pre.lastUpdateTime

\* C11 witness: an endRun at the ceiling in a tick in which a builder has
\* stamped a change, so that a publish was due, has written nothing.
CapacityBackOffWitness ==
    /\ EndRunDone
    /\ CeilingReached
    /\ builderCalled
    /\ lastUpdateTime = time
    /\ TotalRequests + TotalResponses > 0
    /\ written = None

\* The entries of publishLog after entry i up to the first one that met no
\* ceiling: the endRun calls that could retry what entry i left pending.
FirstFreeAfter(i) ==
    {j \in DOMAIN publishLog :
        /\ j > i
        /\ ~publishLog[j].ceiling
        /\ \A m \in DOMAIN publishLog : (i < m /\ m < j) => publishLog[m].ceiling}

\* C12 (capacity retry): when the endRun of a tick in which a builder was
\* called wrote nothing because the ceiling was reached, the first later
\* endRun that meets no ceiling writes the segment, also when no builder
\* is called in its tick.
CapacityRetry ==
    \A i \in DOMAIN publishLog :
        (publishLog[i].due /\ publishLog[i].ceiling /\ ~publishLog[i].wrote) =>
            \A j \in FirstFreeAfter(i) : publishLog[j].wrote

(***************************************************************************)
(* Idle hosts                                                              *)
(***************************************************************************)
\* C13 (idle no-op): with zero configured peers and no builder call in the
\* tick, neither initRun nor endRun makes a transport call (no activate, no
\* foreign read, no segment write, no markPublic), in every tick including
\* tick 0 of a freshly constructed engine.
IdleNoOp ==
    (Len(allies) = 0 /\ ~builderCalled /\ op.name \in {"initRun", "endRun"}) =>
        /\ calls = <<>>
        /\ written = None

\* The same from the second tick on.
IdleNoOpAfterFirstTick == time > 0 => IdleNoOp

(***************************************************************************)
(* Request builders                                                        *)
(***************************************************************************)
RoomScopedBuilders ==
    [requestDefense |-> "defense", requestAttack |-> "attack",
     requestWork |-> "work", requestFunnel |-> "funnel"]

\* The last operation was a room-scoped builder called for a room that
\* already had a request of its kind.
DuplicateRoomCall ==
    /\ op.name \in DOMAIN RoomScopedBuilders
    /\ \E i \in DOMAIN pre.requests[RoomScopedBuilders[op.name]] :
           pre.requests[RoomScopedBuilders[op.name]][i].roomName = op.arg

\* C14 (duplicate room-scoped request): requestDefense, requestAttack,
\* requestWork or requestFunnel for a room that already has a request of that
\* kind returns no id and leaves every request sequence, the responses and
\* the last-update marker unchanged.
DuplicateRoomNoOp ==
    DuplicateRoomCall =>
        /\ returned = None
        /\ requests = pre.requests
        /\ responses = pre.responses
        /\ lastUpdateTime = pre.lastUpdateTime

\* A duplicate call in a tick after the one that stamped the marker, while
\* the host budget still has room for another request.
DuplicateRoomWitness ==
    /\ DuplicateRoomCall
    /\ lastUpdateTime < time
    /\ TotalRequests < limits.requests

\* The room names of a request sequence, in order.
RoomNames(requestType) ==
    [i \in DOMAIN requests[requestType] |-> requests[requestType][i].roomName]

\* A sequence without a repeated element.
Distinct(s) == \A i, j \in DOMAIN s : s[i] = s[j] => i = j

\* C15 (no duplicates by name): no collection of any of the seven kinds
\* holds two entries with the same name: no room twice in resource, defense,
\* attack, work or funnel, no name twice in player or room.
NoDuplicateNames ==
    /\ \A k \in PriorityKinds : Distinct(RoomNames(k))
    /\ \A k \in NameKinds : Distinct(requests[k])

\* The same without the resource kind.
NoDuplicateNamesButResource ==
    /\ \A k \in PriorityKinds \ {"resource"} : Distinct(RoomNames(k))
    /\ \A k \in NameKinds : Distinct(requests[k])

\* A number inside [0,1].
InUnitRange(p) == p.kind = "number" /\ 0 <= p.v /\ p.v <= PriorityOne

\* C16 (priority clamp): every request stored in a priority-bearing
\* sequence has a priority inside [0,1].
PriorityClamped ==
    \A k \in PriorityKinds : \A i \in DOMAIN requests[k] :
        InUnitRange(requests[k][i].priority)

\* The same over the states in which no NaN priority is stored.
PriorityClampedWhenFinite == ~StoresNaN => PriorityClamped

(***************************************************************************)
(* Reply builders                                                          *)
(***************************************************************************)
CountedReplies ==
    [replyResource |-> "resource", replyAttack |-> "attack",
     replyDefense |-> "defense", replyWork |-> "work"]

\* The last operation was one of the four replies that carry a count.
CountedReplyDone == op.name \in DOMAIN CountedReplies

\* What the last reply stored under the id of the request it answered.
StoredReply == ObjGet(responses[CountedReplies[op.name]], op.arg)

\* C17 (reply status derivation): after replyResource, replyAttack,
\* replyDefense or replyWork the responses of the kind hold, under the id of
\* the answered request, a response with that id whose status is FULFILLED
\* exactly when the amount or creepCount of the call was above zero and
\* DISMISSED otherwise.
ReplyStatusDerivation ==
    CountedReplyDone =>
        /\ ObjHas(responses[CountedReplies[op.name]], op.arg)
        /\ StoredReply.id = op.arg
        /\ StoredReply.status = FULFILLED <=> op.count > 0
        /\ StoredReply.status = DISMISSED <=> ~(op.count > 0)

\* A reply with a zero count: it is stored as DISMISSED.
ReplyStatusWitness ==
    /\ CountedReplyDone
    /\ op.count = 0
    /\ ObjHas(responses[CountedReplies[op.name]], op.arg)
    /\ StoredReply.status = DISMISSED

(***************************************************************************)
(* The published segment                                                   *)
(***************************************************************************)
\* The ids of a request sequence, in order.
IdsOf(seq) == [i \in DOMAIN seq |-> seq[i].id]

\* C18 (published shape): a segment written by endRun has updatedAt equal
\* to the tick of the write, a requests member and a responses member for
\* each of the seven kinds, empty or not, the priority-bearing requests in
\* the order of the local sequences, the names of the player and room kinds,
\* and selfInfo exactly when setSelf has been called.
PublishedShape ==
    written # None =>
        LET segment == written[1].value
        IN /\ written[1].parses
           /\ segment.isObject
           /\ segment.updatedAtIsNumber
           /\ segment.updatedAt = time
           /\ segment.requestsShape = "object"
           /\ DOMAIN segment.requests = AllKinds
           /\ segment.responsesShape = "object"
           /\ DOMAIN segment.responses = AllKinds
           /\ \A k \in PriorityKinds : IdsOf(segment.requests[k]) = IdsOf(requests[k])
           /\ \A k \in NameKinds : segment.requests[k] = requests[k]
           /\ segment.responses = responses
           /\ segment.selfInfo # Undefined <=> selfInfo # Undefined
           /\ segment.selfInfo = selfInfo

\* A segment written after the first tick that holds two requests of one
\* kind with different priorities, an empty kind, and selfInfo.
PublishedShapeWitness ==
    /\ written # None
    /\ time > 0
    /\ selfInfo # Undefined
    /\ \E k \in PriorityKinds :
          /\ Len(written[1].value.requests[k]) = 2
          /\ written[1].value.requests[k][1].priority # written[1].value.requests[k][2].priority
    /\ \E k \in AllKinds : written[1].value.requests[k] = <<>>

(***************************************************************************)
(* Builder calls and the publish of their tick                             *)
(***************************************************************************)
RequestBuilders ==
    {"requestResource", "requestDefense", "requestAttack", "requestWork",
     "requestFunnel", "requestPlayerIntel", "requestRoomIntel"}
ReplyBuilders ==
    {"replyResource", "replyAttack", "replyDefense", "replyWork", "replyIntel", "replyPlayer"}

\* The last operation was a request builder that enqueued, a reply, or
\* setSelf.
SuccessfulBuilderCall ==
    \/ op.name \in RequestBuilders /\ requests # pre.requests
    \/ op.name \in ReplyBuilders
    \/ op.name = "setSelf"

\* The segment endRun wrote holds everything the host held when endRun was
\* called: each request, each response, and selfInfo.
WroteEverything ==
    /\ written # None
    /\ \A k \in PriorityKinds :
          IdsOf(written[1].value.requests[k]) = IdsOf(pre.requests[k])
    /\ \A k \in NameKinds : written[1].value.requests[k] = pre.requests[k]
    /\ written[1].value.responses = pre.responses
    /\ written[1].value.selfInfo = pre.selfInfo

\* C19 (a successful builder call is published in the same tick): a
\* request builder that enqueues, a reply and setSelf stamp the tick as the
\* last update and keep what they stored; nothing before endRun takes the
\* stamp or the stored item away; and an endRun that finds the stamp of its
\* tick, with the open-segment ceiling not reached, writes a segment that
\* holds every request, response and selfInfo the host holds.
SameTickPublish ==
    /\ SuccessfulBuilderCall => (builderCalled /\ lastUpdateTime = time)
    /\ lastUpdateTime <= time
    /\ op.name \notin {"constructor", "tick"} =>
          /\ lastUpdateTime >= pre.lastUpdateTime
          /\ \A k \in PriorityKinds : Range(IdsOf(pre.requests[k])) \subseteq Range(IdsOf(requests[k]))
          /\ \A k \in NameKinds : Range(pre.requests[k]) \subseteq Range(requests[k])
          /\ \A k \in AllKinds : Range(ObjKeys(pre.responses[k])) \subseteq Range(ObjKeys(responses[k]))
          /\ pre.selfInfo # Undefined => selfInfo = pre.selfInfo
    /\ (EndRunDone /\ builderCalled /\ pre.lastUpdateTime = time /\ ~CeilingReached) =>
          WroteEverything

\* An endRun after tick 0, in a tick with a builder call, with a request, a
\* response and selfInfo held, has written them.
SameTickPublishWitness ==
    /\ EndRunDone
    /\ time > 0
    /\ builderCalled
    /\ pre.lastUpdateTime = time
    /\ ~CeilingReached
    /\ TotalRequests + TotalResponses > 0
    /\ WroteEverything

(***************************************************************************)
(* A handler that does not decide                                          *)
(***************************************************************************)
\* The (ally, request) pairs of the kind of the last pass.
PassItems == ItemsFrom(allySegments, op.arg, 1)

\* C20 (early exit on no decision): in a processRequests pass, a handler
\* call that returned undefined is the last call of the pass, whatever
\* requests of whatever peer remain; the request it was made for has no
\* status afterwards; the statuses the handler returned earlier in the pass
\* are recorded, and the statuses recorded before the pass are unchanged.
EarlyExitOnNoDecision ==
    op.name = "processRequests" =>
        /\ \A i \in DOMAIN calls : calls[i].result = Undefined => i = Len(calls)
        /\ \A id \in DOMAIN pre.requestStatus :
              HasStatus(requestStatus, id) /\ requestStatus[id] = pre.requestStatus[id]
        /\ op.arg \in PriorityKinds =>
              \A i \in DOMAIN calls :
                 IF calls[i].result = Undefined
                 THEN ~HasStatus(requestStatus, calls[i].key)
                 ELSE HasStatus(requestStatus, calls[i].key)
                      /\ requestStatus[calls[i].key] = calls[i].result

\* A pass in which the handler decided the first request and returned
\* undefined for the second, while another peer's cached segment holds a
\* request without a status that the pass has not reached.
EarlyExitWitness ==
    /\ op.name = "processRequests"
    /\ op.arg \in PriorityKinds
    /\ Len(calls) = 2
    /\ calls[1].result # Undefined
    /\ HasStatus(requestStatus, calls[1].key)
    /\ calls[2].result = Undefined
    /\ \E n \in DOMAIN PassItems :
          /\ PassItems[n].ally # calls[2].who
          /\ ~HasStatus(requestStatus, PassItems[n].req.id)

(***************************************************************************)
(* Withdrawn and republished requests                                      *)
(***************************************************************************)
\* The ids of the priority-bearing requests in any cached segment.
AllCachedIds == UNION {CachedIds(k) : k \in PriorityKinds}

\* The id has a recorded status and no cached segment lists it.
Withdrawn(id) == HasStatus(requestStatus, id) /\ id \notin AllCachedIds

\* C21 (a status lasts until the id is withdrawn): when an id that has a
\* recorded status and is listed by no cached segment comes back into the
\* cache, its status has been cleared, so that the next processRequests
\* pass hands it to the handler again.
StatusClearedOnRepublish ==
    [][\A id \in PeerIds :
          (Withdrawn(id) /\ id \in AllCachedIds') => ~HasStatus(requestStatus', id)]_vars

StatusNeverPurged ==
    [][DOMAIN requestStatus \subseteq DOMAIN requestStatus']_vars

\* An initRun that evicted the cached segment of the peer whose request has
\* a status: the status is still there.
StatusNeverPurgedWitness ==
    /\ op.name = "initRun"
    /\ pre.allySegments # <<>>
    /\ allySegments = <<>>
    /\ \E id \in DOMAIN requestStatus : id \notin AllCachedIds

(***************************************************************************)
(* The poller's schedule                                                   *)
(***************************************************************************)
\* The events of the poll log for any peer in the ticks from..to.
PollEventsIn(fn, from, to) ==
    {i \in DOMAIN pollLog :
        /\ pollLog[i].call.fn = fn
        /\ pollLog[i].t >= from
        /\ pollLog[i].t <= to}

\* What the initRun of the tick did.
RequestNextFired == \E i \in DOMAIN calls : calls[i].fn = "setForeignSegment"
ConsumeFired == \E i \in DOMAIN calls : calls[i].fn = "readForeignSegment"

\* C23 (two-phase schedule): with a non-empty peer set and any refresh rate
\* r >= 1, every window of r consecutive ticks from tick 1 on holds exactly
\* one request-next (setForeignSegment) and exactly one consume
\* (readForeignSegment); the consume comes in the tick right after the
\* request-next; an initRun that fires neither makes no transport call and
\* changes neither the cursor nor the cache.
TwoPhaseSchedule ==
    /\ \A from \in 1..MaxScheduleTime :
          from + refreshRate - 1 <= LastPolledTick =>
             /\ Cardinality(PollEventsIn("setForeignSegment", from, from + refreshRate - 1)) = 1
             /\ Cardinality(PollEventsIn("readForeignSegment", from, from + refreshRate - 1)) = 1
    /\ \A i \in DOMAIN pollLog :
          (pollLog[i].call.fn = "setForeignSegment" /\ pollLog[i].t + 1 <= LastPolledTick) =>
             PollEventsIn("readForeignSegment", pollLog[i].t + 1, pollLog[i].t + 1) # {}
    /\ (InitRunDone /\ ~RequestNextFired /\ ~ConsumeFired) =>
          /\ calls = <<>>
          /\ allyIdx = pre.allyIdx
          /\ allySegments = pre.allySegments

\* The same for the refresh rates from 2 on.
TwoPhaseScheduleFromRateTwo == refreshRate >= 2 => TwoPhaseSchedule

\* C24 (the phase depends on t mod refreshRate alone): with a non-empty
\* peer set and r >= 2, the initRun of tick t fires request-next exactly
\* when t mod r = r - 1 and consume exactly when t mod r = 0, tick 0
\* included.
PhaseByRemainder ==
    (InitRunDone /\ Len(allies) > 0 /\ refreshRate >= 2) =>
        /\ RequestNextFired <=> time % refreshRate = refreshRate - 1
        /\ ConsumeFired <=> time % refreshRate = 0

\* The same from tick 1 on.
PhaseByRemainderAfterFirstTick == time > 0 => PhaseByRemainder

(***************************************************************************)
(* The cursor and the cache under a changing peer set                      *)
(***************************************************************************)
\* C25 (cursor stays in range): whenever initRun indexes the peer list, in
\* the request-next phase and in the consume phase, the cursor is smaller
\* than the current number of peers and the peer it names is a configured
\* peer, also when peers were added or removed since the last initRun.
CursorInRange ==
    (InitRunDone /\ (RequestNextFired \/ ConsumeFired)) =>
        /\ allyIdx < Len(allies)
        /\ \A i \in DOMAIN calls : calls[i].who \in Range(allies)

\* The same for the request-next phase alone.
CursorInRangeOnRequestNext == RequestNextFired => CursorInRange

\* C26 (the cache holds segments of known peers only): every key of
\* allySegments is a currently configured peer, and no peer has two
\* entries; so after removeAlly(p) there is no entry for p.
CacheOfKnownPeers ==
    /\ Range(ObjKeys(allySegments)) \subseteq Range(allies)
    /\ Distinct(ObjKeys(allySegments))

\* At most one entry per peer, and only peers that were configured when
\* their segment was stored.
CacheOneEntryPerPeer ==
    /\ Range(ObjKeys(allySegments)) \subseteq Peers
    /\ Distinct(ObjKeys(allySegments))

(***************************************************************************)
(* Passes over the player and room kinds                                   *)
(***************************************************************************)
\* C27 (the player and room kinds are not status-tracked): every
\* processRequests pass over the player or room kind, whatever passes came
\* before it, calls the handler for the names of the cached segments in
\* order, one call per listed name, skipping none, until the names are
\* used up or the handler returns undefined; and it leaves requestStatus as
\* it was.
NamesNotTracked ==
    [][(op'.name = "processRequests" /\ op'.arg \in NameKinds) =>
          LET items == ItemsFrom(allySegments, op'.arg, 1)
          IN /\ requestStatus' = requestStatus
             /\ Len(calls') <= Len(items)
             /\ \A i \in DOMAIN calls' :
                   /\ calls'[i].who = items[i].ally
                   /\ calls'[i].key = items[i].req
             /\ AllTerminal(calls') => Len(calls') = Len(items)]_vars

\* A pass over a name kind in which the handler was called for the
\* same name twice, once for each peer that lists it, while statuses of
\* other requests are recorded.
NamesNotTrackedWitness ==
    /\ op.name = "processRequests"
    /\ op.arg \in NameKinds
    /\ Len(calls) = 2
    /\ calls[1].key = calls[2].key
    /\ calls[1].who # calls[2].who
    /\ AllTerminal(calls)
    /\ requestStatus # NoStatus

(***************************************************************************)
(* The order of the handler calls                                          *)
(***************************************************************************)
\* Where the cache lists the peer, and where the peer's cached segment
\* lists the request of the kind of the last pass.
PeerPosition(p) ==
    CHOOSE n \in DOMAIN allySegments : allySegments[n].key = p
RequestPosition(p, key) ==
    LET coll == RequestsOfKind(ObjGet(allySegments, p), op.arg)
    IN CHOOSE n \in DOMAIN coll : RequestKey(op.arg, coll[n]) = key

\* C28 (processing order): in one processRequests pass the handler calls
\* for one peer come in the order in which that peer's cached segment lists
\* the requests, and all calls for one peer come before any call for a peer
\* the cache lists later; the peer order is the order of the cache entries,
\* so it is the same for every pass made while the cache is unchanged.
ProcessingOrder ==
    op.name = "processRequests" =>
        \A i, j \in DOMAIN calls :
            i < j =>
               /\ PeerPosition(calls[i].who) <= PeerPosition(calls[j].who)
               /\ calls[i].who = calls[j].who =>
                     RequestPosition(calls[i].who, calls[i].key)
                        < RequestPosition(calls[j].who, calls[j].key)

\* A pass over a cache that lists the second configured peer first: the
\* handler was called for that peer's request and then for a request of the
\* first configured peer, whose segment lists two requests.
ProcessingOrderWitness ==
    /\ op.name = "processRequests"
    /\ allies = <<"p1", "p2">>
    /\ Len(calls) = 2
    /\ calls[1].who = "p2"
    /\ calls[2].who = "p1"
    /\ Len(RequestsOfKind(ObjGet(allySegments, "p1"), op.arg)) = 2

(***************************************************************************)
(* Intel requests                                                          *)
(***************************************************************************)
IntelBuilders == [requestPlayerIntel |-> "player", requestRoomIntel |-> "room"]

\* The last operation asked for intel on a name that was already asked for.
RepeatedIntelCall ==
    /\ op.name \in DOMAIN IntelBuilders
    /\ op.arg \in Range(pre.requests[IntelBuilders[op.name]])

\* C30 (intel requests are idempotent sets): requestPlayerIntel or
\* requestRoomIntel with a name that is already requested leaves every
\* request collection as it was; the player and room collections never hold
\* a name twice, and neither do the name lists of a written segment.
IntelIdempotent ==
    /\ RepeatedIntelCall => requests = pre.requests
    /\ \A k \in NameKinds : Distinct(requests[k])
    /\ written # None => \A k \in NameKinds : Distinct(written[1].value.requests[k])

\* A repeated intel call in a later tick than the first: the set is as it
\* was.
IntelIdempotentWitness ==
    /\ RepeatedIntelCall
    /\ pre.lastUpdateTime < time
    /\ requests[IntelBuilders[op.name]] = <<op.arg>>

(***************************************************************************)
(* Write and mark public                                                   *)
(***************************************************************************)
\* C31 (mark-public follows every write): an endRun that writes slot 90
\* marks slot 90 public in the same call, right after the write, and an
\* endRun marks the slot public only right after having written it; the
\* segment is written exactly when the write call was made.
MarkPublicFollowsWrite ==
    EndRunDone =>
        /\ \A i \in DOMAIN calls :
              calls[i].fn = "writeSegment" =>
                 /\ i + 1 <= Len(calls)
                 /\ calls[i + 1].fn = "markPublic"
                 /\ calls[i + 1].key = calls[i].key
        /\ \A i \in DOMAIN calls :
              calls[i].fn = "markPublic" =>
                 /\ i > 1
                 /\ calls[i - 1].fn = "writeSegment"
        /\ written # None <=> WriteCalls # {}

\* An endRun after tick 0 that wrote and marked public.
MarkPublicWitness ==
    /\ EndRunDone
    /\ time > 0
    /\ written # None
    /\ Len(calls) = 2
    /\ calls[2].fn = "markPublic"

(***************************************************************************)
(* Response maps                                                           *)
(***************************************************************************)
ReplyKinds ==
    [replyResource |-> "resource", replyAttack |-> "attack", replyDefense |-> "defense",
     replyWork |-> "work", replyIntel |-> "room", replyPlayer |-> "player"]
ReplyDone == op.name \in DOMAIN ReplyKinds
ResponseKeys == PeerIds \cup Rooms \cup Players

\* The response the last reply built from its arguments.
BuiltResponse ==
    CASE op.name = "replyResource" -> [id |-> op.arg, status |-> StatusOf(op.count)]
      [] op.name \in {"replyAttack", "replyDefense", "replyWork"} -> RoomResponse(op.arg, op.count)
      [] OTHER -> op.count

\* C32 (one response per key, last reply wins): no response map holds two
\* entries for one key; after a reply the map of its kind holds, under the
\* key of the reply, the response this reply built; and the entries of all
\* other keys and of all other kinds are as they were before the reply.
LastReplyWins ==
    /\ \A k \in AllKinds : Distinct(ObjKeys(responses[k]))
    /\ ReplyDone =>
          /\ ObjHas(responses[ReplyKinds[op.name]], op.arg)
          /\ ObjGet(responses[ReplyKinds[op.name]], op.arg) = BuiltResponse
          /\ \A k \in AllKinds, key \in ResponseKeys :
                (k # ReplyKinds[op.name] \/ key # op.arg) =>
                   SameEntry(pre.responses[k], responses[k], key)

\* A reply that replaced the response an earlier reply had stored under the
\* same key by a different one, while the map holds another key as well.
LastReplyWinsWitness ==
    /\ ReplyDone
    /\ ObjHas(pre.responses[ReplyKinds[op.name]], op.arg)
    /\ ObjGet(pre.responses[ReplyKinds[op.name]], op.arg) # BuiltResponse
    /\ Len(responses[ReplyKinds[op.name]]) = 2

(***************************************************************************)
(* purgeResponses as a function                                            *)
(***************************************************************************)
PurgeCallDone == op.name = "purgeResponses"
KeysOf(o) == Range(ObjKeys(o))

\* C33 (the purge helper): purgeResponses(map, visibleKeys) deletes from
\* the map exactly the entries whose key is not in visibleKeys, all of them
\* in one call, keeps every entry whose key is in visibleKeys as it was, and
\* returns true exactly when it deleted an entry.
PurgeDeletesInvisible ==
    PurgeCallDone =>
        LET before == pre.responses[op.arg]
            after == responses[op.arg]
        IN /\ KeysOf(after) = KeysOf(before) \cap VisibleKeys(op.arg)
           /\ \A key \in KeysOf(after) : ObjGet(after, key) = ObjGet(before, key)
           /\ returned = Some("true") <=> ~(KeysOf(before) \subseteq VisibleKeys(op.arg))

\* What the helper does: it deletes one entry whose key is in visibleKeys,
\* if there is one, keeps every other entry, and returns true exactly when
\* it deleted.
PurgeDeletesOneVisible ==
    PurgeCallDone =>
        LET before == pre.responses[op.arg]
            after == responses[op.arg]
            gone == KeysOf(before) \ KeysOf(after)
        IN /\ KeysOf(after) \subseteq KeysOf(before)
           /\ gone \subseteq VisibleKeys(op.arg)
           /\ Cardinality(gone) = IF KeysOf(before) \cap VisibleKeys(op.arg) = {} THEN 0 ELSE 1
           /\ \A key \in KeysOf(after) : ObjGet(after, key) = ObjGet(before, key)
           /\ returned = Some("true") <=> gone # {}

(***************************************************************************)
(* Timeouts                                                                *)
(***************************************************************************)
\* The positions of the pass's items whose id had no status before the pass.
OpenPositions == {n \in DOMAIN PassItems : ~HasStatus(pre.requestStatus, PassItems[n].req.id)}
Expired(req) == req.timeout < time

CallsFor(id) == {i \in DOMAIN calls : calls[i].key = id}

\* C35 (deduplication is keyed by the id alone): once a status is recorded
\* for an id, a processRequests pass over any priority-bearing kind calls
\* the handler for no request with that id, whichever peer's cached segment
\* lists it and under whichever kind; within one pass an id that several
\* peers list is handed over at most once, and the recorded statuses are
\* keyed by the id and nothing else.
DedupeByIdAlone ==
    /\ DOMAIN requestStatus = DecidedIds
    /\ (op.name = "processRequests" /\ op.arg \in PriorityKinds) =>
          \A n \in DOMAIN PassItems :
             LET id == PassItems[n].req.id
             IN /\ HasStatus(pre.requestStatus, id) => CallsFor(id) = {}
                /\ Cardinality(CallsFor(id)) <= 1

\* C35 witness: a pass over the defense kind that made no call for the id
\* of the second peer's cached defense request, while the only decision
\* ever made for that id was for the first peer's resource request.
DedupeByIdAloneWitness ==
    /\ PassDone("defense")
    /\ \E n \in DOMAIN PassItems :
          /\ PassItems[n].ally = "p2"
          /\ CallsFor(PassItems[n].req.id) = {}
          /\ \E d \in decided : d.key = PassItems[n].req.id
          /\ \A d \in decided :
                d.key = PassItems[n].req.id => d.who = "p1" /\ d.kind = "resource"

(***************************************************************************)
(* The life of a local request                                             *)
(***************************************************************************)
\* s is t, or t with one element inserted somewhere.
GrownByAtMostOne(t, s) ==
    \/ s = t
    \/ \E i \in DOMAIN s : SubSeq(s, 1, i - 1) \o SubSeq(s, i + 1, Len(s)) = t

StoredPeers ==
    {p \in Peers : ObjHas(allySegments, p)
                   /\ (~ObjHas(pre.allySegments, p)
                       \/ ObjGet(allySegments, p) # ObjGet(pre.allySegments, p))}

\* C37 (cache attribution): when initRun stores a segment under
\* allySegments[p], the foreign segment of that cycle is present, is owned
\* by p, has slot id 90, and carries the value stored; initRun stores under
\* at most one name, and a read that reported a segment stored it under the
\* name it was made for.
CacheAttribution ==
    op.name = "initRun" =>
        /\ Cardinality(StoredPeers) <= 1
        /\ \A p \in StoredPeers :
              /\ foreignSegment.present
              /\ foreignSegment.username = p
              /\ foreignSegment.id = SIMPLE_ALLIES_SEGMENT_ID
              /\ ObjGet(allySegments, p) = foreignSegment.data.value
        /\ \A i \in DOMAIN calls :
              (calls[i].fn = "readForeignSegment" /\ calls[i].result = "segment") =>
                 /\ foreignSegment.present
                 /\ foreignSegment.username = calls[i].who
                 /\ foreignSegment.id = SIMPLE_ALLIES_SEGMENT_ID
                 /\ ObjHas(allySegments, calls[i].who)
                 /\ ObjGet(allySegments, calls[i].who) = foreignSegment.data.value

\* C37 witness: an initRun that stored the second peer's segment while the
\* first peer's entry was cached, and left that entry as it was.
CacheAttributionWitness ==
    /\ op.name = "initRun"
    /\ StoredPeers = {"p2"}
    /\ ObjHas(pre.allySegments, "p1")
    /\ SameEntry(pre.allySegments, allySegments, "p1")

\* An initRun in the consume phase that found another peer's segment, or
\* another slot, active and stored nothing.
ForeignOfAnotherPeerWitness ==
    /\ op.name = "initRun"
    /\ calls # <<>> /\ calls[1].fn = "readForeignSegment"
    /\ foreignSegment.present
    /\ foreignSegment.username # calls[1].who
    /\ foreignSegment.data.parses /\ ShapeAccepted(foreignSegment.data.value)
    /\ StoredPeers = {}

(***************************************************************************)
(* Deferral                                                                *)
(***************************************************************************)
\* The last call of the pass returned undefined.
EndedUndecided == calls # <<>> /\ calls[Len(calls)].result = Undefined
\* The call is made for the item at position n of the pass.
CallIsFor(call, n) ==
    /\ call.who = PassItems[n].ally
    /\ call.key = RequestKey(op.arg, PassItems[n].req)

\* A pass of kind k that ended undecided at R is followed at once by another
\* pass of kind k over the same cache: the first call of that pass is for R.
ResumesAtDeferred(k) ==
    (PassDone(k) /\ EndedUndecided /\ op'.name = "processRequests" /\ op'.arg = k
       /\ allySegments' = allySegments)
    => /\ calls' # <<>>
       /\ calls'[1].who = calls[Len(calls)].who
       /\ calls'[1].key = calls[Len(calls)].key

\* After a pass over a priority-bearing kind that ended undecided at R, R
\* has no status and every request before R in iteration order has one.
DeferredAtHead ==
    (op.name = "processRequests" /\ op.arg \in PriorityKinds /\ EndedUndecided) =>
        /\ ~HasStatus(requestStatus, calls[Len(calls)].key)
        /\ \A n \in DOMAIN PassItems :
              CallIsFor(calls[Len(calls)], n) =>
                 \A m \in 1..(n - 1) : HasStatus(requestStatus, PassItems[m].req.id)

\* C38 (head-of-line deferral), as stated: for every kind, a pass that ended
\* with no decision for R is followed, over an unchanged cache, by a pass
\* of that kind whose first handler call is for R.
HeadOfLineDeferral == [][\A k \in AllKinds : ResumesAtDeferred(k)]_vars

\* C38, for the priority-bearing kinds: a pass that ended with no decision
\* for R leaves R without a status and every request before R in iteration
\* order with one; a pass of that kind that follows at once over an
\* unchanged cache calls the handler for R first, and if the handler again
\* returns no decision, for nothing else.
HeadOfLineDeferralPriorityKinds ==
    [][/\ \A k \in PriorityKinds : ResumesAtDeferred(k)
       /\ DeferredAtHead'
       /\ (op'.name = "processRequests" /\ calls' # <<>> /\ calls'[1].result = Undefined) =>
             Len(calls') = 1]_vars

\* C38 witness: a pass over a priority-bearing kind whose only call was for
\* the second of three cached requests and returned no decision; the first
\* request had a status and the third was not presented.
HeadOfLineDeferralWitness ==
    /\ op.name = "processRequests" /\ op.arg \in PriorityKinds
    /\ Len(PassItems) = 3
    /\ Len(calls) = 1 /\ EndedUndecided
    /\ CallIsFor(calls[1], 2)
    /\ HasStatus(pre.requestStatus, PassItems[1].req.id)

(***************************************************************************)
(* The place of a new request                                              *)
(***************************************************************************)
\* The last operation enqueued a resource request.
Inserted == op.name = "requestResource" /\ returned # None
\* The position of the request the last operation enqueued.
InsertedAt == CHOOSE n \in DOMAIN requests.resource : requests.resource[n].id = returned[1]

\* C39 (insertion is stable among equal priorities): a new request is
\* placed after every existing request whose priority is greater than or
\* equal to its own and before every existing request with a lower
\* priority, and the existing requests keep their order.
InsertionStable ==
    Inserted =>
        LET seq == requests.resource
            n == InsertedAt
        IN /\ SubSeq(seq, 1, n - 1) \o SubSeq(seq, n + 1, Len(seq)) = pre.requests.resource
           /\ \A m \in DOMAIN seq \ {n} :
                 /\ JsGreaterEq(seq[m].priority, seq[n].priority) => m < n
                 /\ JsLess(seq[m].priority, seq[n].priority) => m > n

\* The same over the runs in which no NaN priority was handed in.
InsertionStableWhenFinite == ~StoresNaN => InsertionStable

(***************************************************************************)
(* Funnel responses                                                        *)
(***************************************************************************)
\* C40 (no funnel response is ever produced): responses.funnel is empty in
\* every state, and every segment endRun writes carries an empty funnel
\* response map.
NoFunnelResponse ==
    /\ responses.funnel = <<>>
    /\ written # None => written[1].value.responses.funnel = <<>>

\* C40 witness: an endRun that wrote a segment with a response in another
\* map and none in the funnel map.
NoFunnelResponseWitness ==
    /\ EndRunDone /\ written # None
    /\ written[1].value.responses.work # <<>>
    /\ written[1].value.responses.funnel = <<>>
====
